---- MODULE Spec2Model ----
(***************************************************************************)
(* A model of the span/event mapping engine of tracing-opentelemetry       *)
(* (src/src/layer.rs, src/src/span_ext.rs): the per-span OtelData kept in  *)
(* the registry's extensions, the tracer the layer hands builders to, and  *)
(* the layer callbacks that the host subscriber invokes; and of its metrics *)
(* layer (src/src/metrics.rs): the filter, the visitor that routes event   *)
(* fields and the instruments it creates and updates.                      *)
(***************************************************************************)
EXTENDS Integers, Sequences, FiniteSets, TLC

\* ---------------------------------------------------------------- bounds
MaxSpans == 3      \* tracing spans the host creates
MaxEvents == 2     \* events the program emits
MaxDepth == 2      \* spans a thread has entered at once
MaxClock == 3      \* readings the clock advances by
MaxFields == 3     \* fields of an event
MaxOps == 1        \* on_record, OpenTelemetrySpanExt and Context::attach calls
Bits == 4          \* the width of the u64 and i64 of the model

SpanIds == 1 .. MaxSpans
ThreadIds == {1, 2}

\* The span id of the remote parent of tests/trace_state_propagation.rs
\* (traceparent ...-b7ad6b7169203331-01), any id no tracer span can have.
RemoteSid == 100

None == "None"

\* ------------------------------------------------------- OpenTelemetry data
\* opentelemetry::Context, reduced to the span it carries: sid = 0 is the
\* empty context, sid in DOMAIN tracer a live span of the tracer, RemoteSid a
\* remote span context.
EmptyCx == [sid |-> 0, sampled |-> FALSE]

RemoteCxs == {[sid |-> RemoteSid, sampled |-> s] : s \in BOOLEAN}

\* Context::with_span
with_span(cx, sid, sampled) == [cx EXCEPT !.sid = sid, !.sampled = sampled]

\* An Option<SystemTime> or an optional attribute value is <<>> (None) or
\* <<v>> (Some(v)).
\* Option<SpanBuilder>::None
NoBuilder ==
    [present |-> FALSE, name |-> None, span_kind |-> None, status |-> "Unset",
     attributes |-> <<>>, events |-> <<>>, links |-> <<>>,
     sampling_result |-> None, start_time |-> <<>>]

\* tracer.span_builder(name)
span_builder(name) ==
    [present |-> TRUE, name |-> name, span_kind |-> None, status |-> "Unset",
     attributes |-> <<>>, events |-> <<>>, links |-> <<>>,
     sampling_result |-> None, start_time |-> <<>>]

\* extensions.get_mut::<OtelData>() == None
NoData == [present |-> FALSE, builder |-> NoBuilder, parent_cx |-> EmptyCx,
           end_time |-> <<>>]

\* extensions.get_mut::<Timings>() == None
NoTimings == [present |-> FALSE, idle |-> 0, busy |-> 0, last |-> 0]

\* Timings::new
Timings_new(instant) == [present |-> TRUE, idle |-> 0, busy |-> 0, last |-> instant]

\* SpanBuilderUpdates::default()
NoUpdates == [name |-> None, span_kind |-> None, status |-> None,
              attributes |-> <<>>]

NoEvent == [n |-> 0, level |-> "INFO", kind |-> "root", parent |-> 0,
            current |-> 0, thread |-> 0, fields |-> <<>>, name |-> ""]

\* A thread between callbacks.  In a callback: op names it, id is the span it
\* is for, kind and parent are the parent the new span declares, from and cx
\* what parent_context returned, ev and updates what the visitor built.
Idle == [op |-> "idle", id |-> 0, kind |-> "root", parent |-> 0, from |-> 0,
         cx |-> EmptyCx, ev |-> NoEvent, updates |-> NoUpdates]

\* An entry of the log of calls.
Call(op, id, cx, updates, status) ==
    [op |-> op, id |-> id, cx |-> cx, updates |-> updates, status |-> status,
     follows |-> 0, found |-> FALSE, inside |-> FALSE]

VARIABLES
    activate_context,  \* cfg(feature = "activate_context") of the build
    tracked_inactivity,\* OpenTelemetryLayer::tracked_inactivity
    sem_conv_config,   \* OpenTelemetryLayer::sem_conv_config
    visit,             \* an event under its SpanEventVisitor
    failed,            \* a callback has panicked
    nested,            \* the extensions locks taken while another was held
    now,               \* the reading of the clock (Instant::now, time::now)
    timings,           \* span id -> Timings kept in the span's extensions
    threads,           \* the threads of the program
    registry,          \* host: span id -> "none", "open" (the layer sees it),
                       \*   "filtered", "closed" (a span with a record, after
                       \*   on_close) or "filtered_closed"
    extensions,        \* span id -> OtelData kept in the span's extensions
    tracer,            \* the spans the tracer has started, by span identity
    stack,             \* thread -> the spans it has entered (host span stack)
    otel_stack,        \* thread -> attached OpenTelemetry contexts
    pc,                \* thread -> the callback it is in the middle of
    next_event,        \* events emitted so far
    dropped,           \* events on_event has ignored
    ops,               \* the log of the calls that are under a budget
    instruments,       \* Instruments: (map, metric name) -> its instrument
    meter,             \* the instruments the Meter has built, with the
                       \*   measurements each has received
    stderr,            \* the diagnostics printed (eprintln!)
    offered,           \* the callsites and events offered to MetricsFilter
    mpc                \* thread -> its position in InstrumentLayer::on_event

vars == <<activate_context, tracked_inactivity, sem_conv_config, visit, failed,
          nested, now, timings, threads, registry, extensions, tracer, stack,
          otel_stack, pc, next_event, dropped, ops, instruments, meter, stderr,
          offered, mpc>>

\* The state of the metrics layer.
metrics_state == <<instruments, meter, stderr, offered, mpc>>

\* The state of the spans, of the tracer and of the threads in the callbacks
\* of OpenTelemetryLayer.
span_state == <<visit, failed, nested, now, timings, registry, extensions,
                tracer, stack, otel_stack, pc, next_event, dropped, ops>>

\* What the layer is built and configured with.
layer_config == <<activate_context, tracked_inactivity, sem_conv_config>>

\* What only the callbacks that say so touch.
untouched == <<visit, failed, nested, now, timings>>

\* What only on_new_span and on_follows_from touch.
aside == <<visit, failed, nested>>

\* ------------------------------------------------------------- the tracer
\* The sampler of the tracer provider: ParentBased, sampling every root
\* (the provider's default).
should_sample(parent_cx) ==
    IF parent_cx.sid = 0 THEN TRUE ELSE parent_cx.sampled

\* SpanBuilder::start_with_context: the span the tracer creates from a
\* builder and a parent context.  owner is the tracing span whose builder it
\* was; ended counts the calls of end / end_with_timestamp.
start_with_context(builder, parent_cx, owner) ==
    [owner |-> owner,
     parent |-> parent_cx,
     sampled |-> IF builder.sampling_result = None
                 THEN should_sample(parent_cx)
                 ELSE builder.sampling_result = "RecordAndSample",
     name |-> builder.name,
     span_kind |-> builder.span_kind,
     status |-> builder.status,
     attributes |-> builder.attributes,
     events |-> builder.events,
     links |-> builder.links,
     start_time |-> builder.start_time,
     busy_ns |-> <<>>,
     idle_ns |-> <<>>,
     ended |-> 0,
     end_time |-> <<>>]

\* ---------------------------------------------------- SpanBuilderUpdates
\* SpanBuilderUpdates::apply putting the attributes of the updates in the
\* place of the builder's.
apply_replacing_attributes(updates, builder) ==
    [builder EXCEPT
        !.name = IF updates.name # None THEN updates.name ELSE @,
        !.span_kind = IF updates.span_kind # None THEN updates.span_kind ELSE @,
        !.status = IF updates.status # None THEN updates.status ELSE @,
        !.attributes = IF updates.attributes # <<>> THEN updates.attributes ELSE @]

\* SpanBuilderUpdates::apply
apply(updates, builder) ==
    [builder EXCEPT
        !.name = IF updates.name # None THEN updates.name ELSE @,
        !.span_kind = IF updates.span_kind # None THEN updates.span_kind ELSE @,
        !.status = IF updates.status # None THEN updates.status ELSE @,
        !.attributes = @ \o updates.attributes]

\* SpanBuilderUpdates::update_span on the span a context carries: only the
\* status and the attributes reach the span; a context without a live span
\* of the tracer carries a no-op span.
update_span(updates, trc, sid) ==
    IF sid \in DOMAIN trc
    THEN [trc EXCEPT
            ![sid].status = IF updates.status # None THEN updates.status ELSE @,
            ![sid].attributes = @ \o updates.attributes]
    ELSE trc

\* ------------------------------------------------------ SpanEventVisitor
\* A field value of an event, by the Visit method that records it: b is the
\* value of a bool, n that of an i64 or, in tenths, of an f64, s the text of
\* a &str, what the Debug implementation of a Debug value writes, or what
\* the Display implementation of a dyn Error writes.
Value(type, b, n, s) == [type |-> type, b |-> b, n |-> n, s |-> s]

Values ==
    {Value("bool", TRUE, 0, ""), Value("i64", FALSE, 7, ""),
     Value("f64", FALSE, 15, ""),
     Value("str", FALSE, 0, "boom"), Value("str", FALSE, 0, ""),
     Value("debug", FALSE, 0, "boom"), Value("debug", FALSE, 0, ""),
     Value("error", FALSE, 0, "boom")}

Digits == <<"0", "1", "2", "3", "4", "5", "6", "7", "8", "9">>

\* ToString::to_string of a bool, an i64 below ten, an f64 below ten with
\* one decimal, or a &str.
to_string(value) ==
    CASE value.type = "bool" -> IF value.b THEN "true" ELSE "false"
      [] value.type = "i64" -> Digits[value.n + 1]
      [] value.type = "f64" ->
            IF value.n % 10 = 0 THEN Digits[(value.n \div 10) + 1]
            ELSE Digits[(value.n \div 10) + 1] \o "." \o Digits[(value.n % 10) + 1]
      [] OTHER -> value.s

\* format!("{:?}", value) of a &str (quoted) or of a Debug value.
debug_format(value) ==
    IF value.type = "str" THEN "\"" \o value.s \o "\"" ELSE value.s

\* otel::Status::error(description)
Status_error(description) == "Error:" \o description

KeyValue(key, value) == [key |-> key, value |-> value]

\* otel::Event::new(String::new(), ...) with the level and the target, and
\* no SpanBuilderUpdates.
NewVisitor ==
    [event_builder |-> [name |-> "",
                        attributes |-> <<KeyValue("level", "level"),
                                         KeyValue("target", "target")>>],
     span_builder_updates |-> NoUpdates]

\* record_plain letting a message name only an event that has no name yet.
record_plain_keeps_name(v, name, text) ==
    IF name = "message"
    THEN IF v.event_builder.name = "" THEN [v EXCEPT !.event_builder.name = text]
         ELSE v
    ELSE [v EXCEPT !.event_builder.attributes = Append(@, KeyValue(name, text))]

\* The arm of record_bool, record_f64 and record_i64 and the last arm of
\* record_str and record_debug: a message names the event, another field
\* is an attribute.
record_plain(v, name, text) ==
    IF name = "message"
    THEN [v EXCEPT !.event_builder.name = text]
    ELSE [v EXCEPT !.event_builder.attributes = Append(@, KeyValue(name, text))]

record_bool(v, name, value) == record_plain(v, name, to_string(value))

record_f64(v, name, value) == record_plain(v, name, to_string(value))

record_i64(v, name, value) == record_plain(v, name, to_string(value))

\* The arms of record_str and record_debug: text is what a message or a
\* plain attribute gets, rendered is format!("{:?}", value).
record_error_event(v, name, text, rendered) ==
    IF name = "message" THEN [v EXCEPT !.event_builder.name = text]
    ELSE IF name = "error" /\ v.event_builder.name = ""
    THEN LET u == IF sem_conv_config.error_events_to_status
                  THEN [v EXCEPT !.span_builder_updates.status = Status_error(rendered)]
                  ELSE v
         IN IF sem_conv_config.error_events_to_exceptions
            THEN [u EXCEPT !.event_builder.name = "exception",
                           !.event_builder.attributes =
                               Append(@, KeyValue("exception.message", rendered))]
            ELSE [u EXCEPT !.event_builder.attributes =
                               Append(@, KeyValue("error", rendered))]
    ELSE [v EXCEPT !.event_builder.attributes = Append(@, KeyValue(name, text))]

record_str(v, name, value) ==
    record_error_event(v, name, to_string(value), debug_format(value))

record_debug(v, name, value) ==
    record_error_event(v, name, debug_format(value), debug_format(value))

\* record_error escalating the exception attributes to the span under the
\* setting that puts them on the event.
record_error_one_switch(v, name, value) ==
    LET error_msg == value.s
        v1 == IF sem_conv_config.error_fields_to_exceptions
              THEN [v EXCEPT !.event_builder.attributes =
                        @ \o <<KeyValue("exception.message", error_msg),
                               KeyValue("exception.stacktrace", "chain")>>,
                             !.span_builder_updates.attributes =
                        @ \o <<"exception.message", "exception.stacktrace">>]
              ELSE v
    IN [v1 EXCEPT !.event_builder.attributes =
            @ \o <<KeyValue(name, error_msg), KeyValue(name \o ".chain", "chain")>>]

\* record_error: the exception attributes on the event and for the span,
\* then the field itself and its source chain.
record_error(v, name, value) ==
    LET error_msg == value.s
        v1 == IF sem_conv_config.error_fields_to_exceptions
              THEN [v EXCEPT !.event_builder.attributes =
                        @ \o <<KeyValue("exception.message", error_msg),
                               KeyValue("exception.stacktrace", "chain")>>]
              ELSE v
        v2 == IF sem_conv_config.error_records_to_exceptions
              THEN [v1 EXCEPT !.span_builder_updates.attributes =
                        @ \o <<"exception.message", "exception.stacktrace">>]
              ELSE v1
    IN [v2 EXCEPT !.event_builder.attributes =
            @ \o <<KeyValue(name, error_msg), KeyValue(name \o ".chain", "chain")>>]

\* Value::record: the Visit method of the value's type.
record(v, field) ==
    CASE field.value.type = "bool" -> record_bool(v, field.name, field.value)
      [] field.value.type = "f64" -> record_f64(v, field.name, field.value)
      [] field.value.type = "i64" -> record_i64(v, field.name, field.value)
      [] field.value.type = "str" -> record_str(v, field.name, field.value)
      [] field.value.type = "debug" -> record_debug(v, field.name, field.value)
      [] OTHER -> record_error(v, field.name, field.value)

\* Event::record: the fields are visited in the order of the event's
\* field set.
RECURSIVE event_record(_, _)
event_record(v, fields) ==
    IF fields = <<>> THEN v
    ELSE event_record(record(v, fields[1]), SubSeq(fields, 2, Len(fields)))

\* The name of the event's metadata.
MetadataName == "event src/main.rs:1"

\* SemConvConfig of OpenTelemetryLayer::new
DefaultSemConv ==
    [error_fields_to_exceptions |-> TRUE, error_records_to_exceptions |-> TRUE,
     error_events_to_exceptions |-> TRUE, error_events_to_status |-> TRUE]

SemConvConfigs ==
    [error_fields_to_exceptions : BOOLEAN, error_records_to_exceptions : BOOLEAN,
     error_events_to_exceptions : BOOLEAN, error_events_to_status : BOOLEAN]

\* The fields an event can have, and the events: up to MaxFields fields of
\* different names, in any order.
FieldNames == {"message", "error", "k"}

Fields == [name : FieldNames, value : Values]

Events ==
    {fs \in UNION {[1 .. n -> Fields] : n \in 0 .. MaxFields} :
        \A i, j \in 1 .. Len(fs) : fs[i].name = fs[j].name => i = j}

\* An event about to be visited: next is the field the visitor gets next,
\* named tells that on_event has looked at the name after the visit.
NewVisit(fields) ==
    [fields |-> fields, next |-> 1, v |-> NewVisitor, named |-> FALSE]

\* on_event after the visit: an event whose name is still empty gets the
\* name of its metadata.
event_named(v) ==
    IF v.event_builder.name = ""
    THEN [v EXCEPT !.event_builder.name = MetadataName]
    ELSE v

\* --------------------------------------------------------------- the layer
\* start_cx reading the builder without taking it out of the OtelData.
start_cx_keeps_builder(otel_data, id, trc) ==
    IF otel_data.builder.present
    THEN LET span == start_with_context(otel_data.builder, otel_data.parent_cx, id)
         IN [data |-> [otel_data EXCEPT
                          !.parent_cx = with_span(otel_data.parent_cx,
                                                  Len(trc) + 1, span.sampled)],
             tracer |-> Append(trc, span)]
    ELSE [data |-> otel_data, tracer |-> trc]

\* OpenTelemetryLayer::start_cx: the pair of the OtelData and the tracer
\* after starting the builder of otel_data, if it has one.
start_cx(otel_data, id, trc) ==
    IF otel_data.builder.present
    THEN LET span == start_with_context(otel_data.builder, otel_data.parent_cx, id)
         IN [data |-> [otel_data EXCEPT
                          !.builder = NoBuilder,
                          !.parent_cx = with_span(otel_data.parent_cx,
                                                  Len(trc) + 1, span.sampled)],
             tracer |-> Append(trc, span)]
    ELSE [data |-> otel_data, tracer |-> trc]

\* Context::span(id): the layer sees the span.
ctx_span(id) == id \in SpanIds /\ registry[id] = "open"

\* Context::lookup_current: the innermost entered span the layer sees.
RECURSIVE lookup_in(_)
lookup_in(stk) ==
    IF stk = <<>> THEN 0
    ELSE IF ctx_span(stk[Len(stk)]) THEN stk[Len(stk)]
    ELSE lookup_in(SubSeq(stk, 1, Len(stk) - 1))

lookup_current(t) == lookup_in(stack[t])

\* OtelContext::current() on thread t.
current(t) ==
    IF otel_stack[t] = <<>> THEN EmptyCx
    ELSE otel_stack[t][Len(otel_stack[t])].cx

\* with_started_cx working on a copy of the OtelData: the started context is
\* returned but not cached on the record.
with_started_cx_on_copy(id, ext, trc) ==
    LET s == start_cx(ext[id], id, trc)
    IN [extensions |-> ext,
        tracer |-> s.tracer,
        cx |-> s.data.parent_cx,
        from |-> id]

\* OpenTelemetryLayer::with_started_cx with the closure |cx| cx.clone(), on
\* the span id: the extensions and the tracer afterwards, and the context.
with_started_cx(id, ext, trc) ==
    LET s == start_cx(ext[id], id, trc)
    IN [extensions |-> [ext EXCEPT ![id] = s.data],
        tracer |-> s.tracer,
        cx |-> s.data.parent_cx,
        from |-> id]

\* parent_context taking the contextual branch for an explicit parent it
\* has not found.
parent_context_unfound_is_contextual(kind, parent, t) ==
    LET unchanged(cx) == [extensions |-> extensions, tracer |-> tracer,
                          cx |-> cx, from |-> 0]
    IN IF kind = "explicit" /\ ctx_span(parent) /\ extensions[parent].present
       THEN with_started_cx(parent, extensions, tracer)
       ELSE IF kind \in {"contextual", "explicit"}
       THEN IF activate_context
            THEN unchanged(current(t))
            ELSE LET cur == lookup_current(t)
                 IN IF cur # 0 /\ extensions[cur].present
                    THEN with_started_cx(cur, extensions, tracer)
                    ELSE unchanged(current(t))
       ELSE unchanged(EmptyCx)

\* parent_context giving a root span the ambient context.
parent_context_root_is_ambient(kind, parent, t) ==
    LET unchanged(cx) == [extensions |-> extensions, tracer |-> tracer,
                          cx |-> cx, from |-> 0]
    IN IF kind = "explicit" /\ ctx_span(parent) /\ extensions[parent].present
       THEN with_started_cx(parent, extensions, tracer)
       ELSE IF kind = "contextual"
       THEN IF activate_context
            THEN unchanged(current(t))
            ELSE LET cur == lookup_current(t)
                 IN IF cur # 0 /\ extensions[cur].present
                    THEN with_started_cx(cur, extensions, tracer)
                    ELSE unchanged(current(t))
       ELSE unchanged(current(t))

\* OpenTelemetryLayer::parent_context for a span created on thread t with
\* an explicit parent, as a contextual span or as a root: the context the
\* span inherits and the extensions and tracer afterwards (from names the
\* span whose context was taken, 0 if none).
parent_context(kind, parent, t) ==
    LET unchanged(cx) == [extensions |-> extensions, tracer |-> tracer,
                          cx |-> cx, from |-> 0]
    IN IF kind = "explicit" /\ ctx_span(parent) /\ extensions[parent].present
       THEN with_started_cx(parent, extensions, tracer)
       ELSE IF kind = "contextual"
       THEN IF activate_context
            THEN unchanged(current(t))
            ELSE LET cur == lookup_current(t)
                 IN IF cur # 0 /\ extensions[cur].present
                    THEN with_started_cx(cur, extensions, tracer)
                    ELSE unchanged(current(t))
       ELSE unchanged(EmptyCx)

\* IdValueStack::pop: the stack without its last entry for id.
RECURSIVE pop(_, _)
pop(stk, id) ==
    IF stk = <<>> THEN <<>>
    ELSE IF stk[Len(stk)].id = id THEN SubSeq(stk, 1, Len(stk) - 1)
    ELSE Append(pop(SubSeq(stk, 1, Len(stk) - 1), id), stk[Len(stk)])

\* add_event storing an event list built from a copy that misses the events
\* added meanwhile.
span_add_event_on_stale_copy(trc, sid, ev) ==
    IF sid \in DOMAIN trc THEN [trc EXCEPT ![sid].events = <<ev>>] ELSE trc

\* Span::add_event on the span a context carries.
span_add_event(trc, sid, ev) ==
    IF sid \in DOMAIN trc THEN [trc EXCEPT ![sid].events = Append(@, ev)] ELSE trc

\* Span::set_status on the span a context carries.
span_set_status(trc, sid, status) ==
    IF sid \in DOMAIN trc THEN [trc EXCEPT ![sid].status = status] ELSE trc

\* Span::set_attributes with the two timing attributes, on the span a
\* context carries: a span that has ended takes no attribute.
span_set_attributes(trc, sid, busy, idle) ==
    IF sid \in DOMAIN trc /\ trc[sid].ended = 0
    THEN [trc EXCEPT ![sid].busy_ns = <<busy>>, ![sid].idle_ns = <<idle>>]
    ELSE trc

\* Span::end / Span::end_with_timestamp on the span a context carries.
span_end(trc, sid, end_time) ==
    IF sid \in DOMAIN trc
    THEN [trc EXCEPT ![sid].ended = @ + 1,
                     ![sid].end_time = IF @ = <<>> THEN <<end_time>> ELSE @]
    ELSE trc

\* ------------------------------------------------------------------ inputs
\* The field sets of a span or of a record call, as the SpanAttributeVisitor
\* leaves them in a SpanBuilderUpdates.
FieldUpdates ==
    {[NoUpdates EXCEPT !.name = "renamed", !.span_kind = "server"],
     [NoUpdates EXCEPT !.status = "Ok", !.attributes = <<"k">>]}

Live(id) == id \in SpanIds /\ registry[id] \in {"open", "filtered"}

Known(id) == id \in SpanIds /\ registry[id] # "none"

\* The id the host gives the next span.
NextId == Cardinality({i \in SpanIds : registry[i] # "none"}) + 1

\* No thread is in the middle of a callback that names the span.
Quiet(id) == \A t \in threads : pc[t].id # id /\ pc[t].from # id

\* The thread has entered the span and not left it.
Entered(t, id) == \E i \in 1 .. Len(stack[t]) : stack[t][i] = id

\* The host has returned from creating the span.
Created(id) == \A t \in threads : ~(pc[t].op = "on_new_span" /\ pc[t].id = id)

Contexts ==
    {EmptyCx} \cup RemoteCxs
    \cup {extensions[j].parent_cx : j \in {i \in SpanIds : extensions[i].present}}


\* ----------------------------------------------------------------- actions
\* The host creates a span the layer gets no on_new_span for: a span the
\* layer's per-layer filter hides (Context::span returns None for it), or,
\* if seen, a span the layer sees but holds no OtelData for.
new_span_filtered(t, seen) ==
    /\ pc[t] = Idle
    /\ NextId \in SpanIds
    /\ registry' = [registry EXCEPT ![NextId] = IF seen THEN "open" ELSE "filtered"]
    /\ UNCHANGED <<layer_config, metrics_state, untouched, threads, extensions, tracer, stack,
                   otel_stack, pc, next_event, dropped, ops>>

\* The span whose extensions parent_context locks (0: none): the explicit
\* parent the layer sees, or, without activate_context, the current span.
parent_locked(kind, parent, t) ==
    IF kind = "explicit"
    THEN IF ctx_span(parent) THEN parent ELSE 0
    ELSE IF kind = "contextual" /\ ~activate_context THEN lookup_current(t)
    ELSE 0

\* A thread holding the extensions of held has taken those of taken;
\* outward: taken is an ancestor of held.
Nested(op, held, taken, outward) ==
    [op |-> op, held |-> held, taken |-> taken, outward |-> outward]

\* The span that the OpenTelemetry parent of the span of id belongs to (0:
\* none).
otel_parent(id) ==
    IF ~extensions[id].present THEN 0
    ELSE LET cx == extensions[id].parent_cx
             parent_cx == IF extensions[id].builder.present THEN cx
                          ELSE IF cx.sid \in DOMAIN tracer THEN tracer[cx.sid].parent
                          ELSE EmptyCx
         IN IF parent_cx.sid \in DOMAIN tracer THEN tracer[parent_cx.sid].owner
            ELSE 0

RECURSIVE is_ancestor(_, _, _)
is_ancestor(a, id, fuel) ==
    IF fuel = 0 \/ id = 0 \/ otel_parent(id) = 0 THEN FALSE
    ELSE otel_parent(id) = a \/ is_ancestor(a, otel_parent(id), fuel - 1)

\* on_new_span up to and including parent_context: the parent is resolved
\* (and started) under the new span's extensions, which hold no OtelData
\* yet.
on_new_span(t, kind, parent, updates) ==
    /\ pc[t] = Idle
    /\ NextId \in SpanIds
    /\ IF kind = "explicit" THEN Known(parent) /\ Created(parent) ELSE parent = 0
    /\ LET r == parent_context(kind, parent, t)
       IN /\ extensions' = r.extensions
          /\ tracer' = r.tracer
          /\ pc' = [pc EXCEPT ![t] = [Idle EXCEPT !.op = "on_new_span",
                                                  !.id = NextId,
                                                  !.kind = kind,
                                                  !.parent = parent,
                                                  !.from = r.from,
                                                  !.cx = r.cx,
                                                  !.updates = updates]]
    /\ registry' = [registry EXCEPT ![NextId] = "open"]
    /\ timings' = IF tracked_inactivity /\ ~timings[NextId].present
                  THEN [timings EXCEPT ![NextId] = Timings_new(now)]
                  ELSE timings
    /\ nested' = IF parent_locked(kind, parent, t) # 0
                 THEN nested \cup {Nested("on_new_span", NextId,
                                          parent_locked(kind, parent, t), TRUE)}
                 ELSE nested
    /\ UNCHANGED <<layer_config, metrics_state, visit, failed, now, threads, stack, otel_stack, next_event,
                   dropped, ops>>

\* The rest of on_new_span: the builder is made, the fields are applied to
\* it and the OtelData is inserted.
on_new_span_insert(t) ==
    /\ pc[t].op = "on_new_span"
    /\ extensions' = [extensions EXCEPT ![pc[t].id] =
            [present |-> TRUE,
             builder |-> apply(pc[t].updates,
                               [span_builder("span") EXCEPT !.start_time = <<now>>]),
             parent_cx |-> pc[t].cx,
             end_time |-> <<>>]]
    /\ pc' = [pc EXCEPT ![t] = Idle]
    /\ UNCHANGED <<layer_config, metrics_state, untouched, threads, registry, tracer, stack,
                   otel_stack, next_event, dropped, ops>>

\* Timings as on_enter leaves them.
enter(tm, instant) ==
    [tm EXCEPT !.idle = @ + (instant - tm.last), !.last = instant]

\* Timings as on_exit leaves them.
exit(tm, instant) ==
    [tm EXCEPT !.busy = @ + (instant - tm.last), !.last = instant]

\* on_enter: the host pushes the span on the thread's span stack; with
\* activate_context the layer starts the span and attaches its context; the
\* time since the last enter or exit goes to the idle time.
on_enter(t, id) ==
    /\ pc[t] = Idle
    /\ Live(id) /\ Created(id)
    /\ stack' = [stack EXCEPT ![t] = Append(@, id)]
    /\ timings' = IF ctx_span(id) /\ timings[id].present
                  THEN [timings EXCEPT ![id] = enter(@, now)]
                  ELSE timings
    /\ IF activate_context /\ ctx_span(id) /\ extensions[id].present
       THEN LET r == with_started_cx(id, extensions, tracer)
            IN /\ extensions' = r.extensions
               /\ tracer' = r.tracer
               /\ otel_stack' = [otel_stack EXCEPT ![t] =
                                    Append(@, [id |-> id, cx |-> r.cx])]
       ELSE UNCHANGED <<extensions, tracer, otel_stack>>
    /\ UNCHANGED <<layer_config, metrics_state, aside, now, threads, registry, pc, next_event,
                   dropped, ops>>

\* on_exit of the innermost entered span of the thread.
\* on_exit keeping the end time an earlier on_exit has recorded.
on_exit_keeps_end_time(t) ==
    /\ pc[t] = Idle
    /\ stack[t] # <<>>
    /\ LET id == stack[t][Len(stack[t])]
       IN /\ stack' = [stack EXCEPT ![t] = SubSeq(@, 1, Len(@) - 1)]
          /\ IF ctx_span(id) /\ extensions[id].present
             THEN /\ extensions' = [extensions EXCEPT ![id].end_time =
                                       IF @ = <<>> THEN <<now>> ELSE @]
                  /\ otel_stack' = IF activate_context
                                   THEN [otel_stack EXCEPT ![t] = pop(@, id)]
                                   ELSE otel_stack
             ELSE UNCHANGED <<extensions, otel_stack>>
          /\ timings' = IF ctx_span(id) /\ tracked_inactivity /\ timings[id].present
                        THEN [timings EXCEPT ![id] = exit(@, now)]
                        ELSE timings
    /\ UNCHANGED <<layer_config, metrics_state, aside, now, threads, registry, tracer, pc,
                   next_event, dropped, ops>>

on_exit(t) ==
    /\ pc[t] = Idle
    /\ stack[t] # <<>>
    /\ LET id == stack[t][Len(stack[t])]
       IN /\ stack' = [stack EXCEPT ![t] = SubSeq(@, 1, Len(@) - 1)]
          /\ IF ctx_span(id) /\ extensions[id].present
             THEN /\ extensions' = [extensions EXCEPT ![id].end_time = <<now>>]
                  /\ otel_stack' = IF activate_context
                                   THEN [otel_stack EXCEPT ![t] = pop(@, id)]
                                   ELSE otel_stack
             ELSE UNCHANGED <<extensions, otel_stack>>
          /\ timings' = IF ctx_span(id) /\ tracked_inactivity /\ timings[id].present
                        THEN [timings EXCEPT ![id] = exit(@, now)]
                        ELSE timings
    /\ UNCHANGED <<layer_config, metrics_state, aside, now, threads, registry, tracer, pc,
                   next_event, dropped, ops>>

\* A thread that waits for extensions it holds itself.
Blocked(id) == [Idle EXCEPT !.op = "blocked", !.id = id]

\* The spans whose extensions a field value may read while a visitor
\* formats it: those the thread is in (a tracing_error::SpanTrace).
visit_reads(t) == {stack[t][i] : i \in 1 .. Len(stack[t])}

\* on_record and on_event taking the extensions of the span before the
\* fields are visited.
held_in_visit_span(id) == {id}

\* The extensions on_record and on_event hold while the fields are visited:
\* span.extensions_mut() comes after values.record and event.record.
held_in_visit(id) == {}

\* The extensions the values read under those the callback holds.
visit_nested(op, t, id) ==
    {Nested(op, held, taken, is_ancestor(taken, held, MaxSpans)) :
        held \in held_in_visit(id), taken \in visit_reads(t)}

\* A value reads the extensions that the callback holds for writing.
visit_blocks(t, id) == held_in_visit(id) \cap visit_reads(t) # {}

\* on_record starting the span before it applies the updates, as on_event
\* does.
on_record_starts_span(t, id, updates) ==
    /\ pc[t] = Idle
    /\ ctx_span(id) /\ Created(id)
    /\ ops' = Append(ops, Call("on_record", id, EmptyCx, updates, None))
    /\ IF extensions[id].present
       THEN LET s == start_cx(extensions[id], id, tracer)
            IN /\ extensions' = [extensions EXCEPT ![id] = s.data]
               /\ tracer' = update_span(updates, s.tracer, s.data.parent_cx.sid)
       ELSE UNCHANGED <<extensions, tracer>>
    /\ UNCHANGED <<layer_config, metrics_state, untouched, threads, registry, stack, otel_stack, pc,
                   next_event, dropped>>

\* on_record: the values are visited, then the extensions of the span are
\* taken and the updates applied to the builder or sent to the span.
on_record(t, id, updates) ==
    /\ pc[t] = Idle
    /\ ctx_span(id) /\ Created(id)
    /\ ops' = Append(ops, [Call("on_record", id, EmptyCx, updates, None)
                              EXCEPT !.inside = Entered(t, id)])
    /\ nested' = nested \cup visit_nested("on_record", t, id)
    /\ IF visit_blocks(t, id)
       THEN /\ pc' = [pc EXCEPT ![t] = Blocked(id)]
            /\ UNCHANGED <<extensions, tracer>>
       ELSE /\ pc' = pc
            /\ IF extensions[id].present
               THEN IF extensions[id].builder.present
                    THEN /\ extensions' = [extensions EXCEPT
                                              ![id].builder = apply(updates, @)]
                         /\ tracer' = tracer
                    ELSE /\ tracer' = update_span(updates, tracer,
                                                  extensions[id].parent_cx.sid)
                         /\ extensions' = extensions
               ELSE UNCHANGED <<extensions, tracer>>
    /\ UNCHANGED <<layer_config, metrics_state, visit, failed, now, timings, threads, registry,
                   stack, otel_stack, next_event, dropped>>

\* on_follows_from expecting to find the span that is followed.
on_follows_from_expects_target(t, id, follows) ==
    /\ pc[t] = Idle
    /\ ctx_span(id) /\ Created(id)
    /\ Known(follows) /\ Created(follows)
    /\ ops' = Append(ops, [Call("on_follows_from", id, EmptyCx, NoUpdates, None)
                              EXCEPT !.follows = follows,
                                     !.found = ctx_span(follows)])
    /\ failed' = (failed \/ ~extensions[id].present \/ ~ctx_span(follows)
                         \/ ~extensions[follows].present)
    /\ UNCHANGED <<layer_config, metrics_state, visit, nested, now, timings, threads, registry,
                   extensions, tracer, stack, otel_stack, pc, next_event, dropped>>

\* on_follows_from: the OtelData of the span is expected under its
\* extensions; holding them, the span that is followed is looked up and, if
\* the layer sees it, its OtelData expected under its extensions.  No link
\* is recorded.  A span that follows itself waits for its own extensions.
on_follows_from(t, id, follows) ==
    /\ pc[t] = Idle
    /\ ctx_span(id) /\ Created(id)
    /\ Known(follows) /\ Created(follows)
    /\ ops' = Append(ops, [Call("on_follows_from", id, EmptyCx, NoUpdates, None)
                              EXCEPT !.follows = follows,
                                     !.found = ctx_span(follows)])
    /\ IF ~extensions[id].present
       THEN failed' = TRUE /\ UNCHANGED <<nested, pc>>
       ELSE IF ~ctx_span(follows)
       THEN UNCHANGED <<failed, nested, pc>>
       ELSE /\ nested' = nested \cup {Nested("on_follows_from", id, follows,
                                              is_ancestor(follows, id, MaxSpans))}
            /\ IF follows = id
               THEN pc' = [pc EXCEPT ![t] = Blocked(id)] /\ failed' = failed
               ELSE pc' = pc /\ failed' = (failed \/ ~extensions[follows].present)
    /\ UNCHANGED <<layer_config, metrics_state, visit, now, timings, threads, registry,
                   extensions, tracer, stack, otel_stack, next_event, dropped>>

\* The thread is in a callback that holds the extensions of the span of id.
Holds(t, id) ==
    pc[t].id = id /\ pc[t].op \in {"on_new_span", "on_follows_from", "blocked"}

\* No thread holds the extensions of the span of id.
Free(id) == \A t \in threads : ~Holds(t, id)

\* on_follows_from among threads, up to the lookup of the span that is
\* followed: the extensions of the span are taken when no thread holds
\* them, and kept if they hold OtelData (the panic releases them).
on_follows_from_extensions(t, id, follows) ==
    /\ pc[t] = Idle
    /\ ctx_span(id) /\ Created(id) /\ Free(id)
    /\ Known(follows) /\ Created(follows)
    /\ ops' = Append(ops, [Call("on_follows_from", id, EmptyCx, NoUpdates, None)
                              EXCEPT !.follows = follows,
                                     !.found = ctx_span(follows)])
    /\ IF extensions[id].present
       THEN /\ pc' = [pc EXCEPT ![t] = [Idle EXCEPT !.op = "on_follows_from",
                                                    !.id = id,
                                                    !.parent = follows]]
            /\ failed' = failed
       ELSE failed' = TRUE /\ pc' = pc
    /\ UNCHANGED <<layer_config, metrics_state, visit, nested, now, timings, threads, registry,
                   extensions, tracer, stack, otel_stack, next_event, dropped>>

\* The rest of on_follows_from among threads: if the layer sees the span
\* that is followed, its extensions are taken when no thread holds them,
\* this one included, and its OtelData expected; both are released.
on_follows_from_follows_extensions(t) ==
    /\ pc[t].op = "on_follows_from"
    /\ LET id == pc[t].id
           follows == pc[t].parent
       IN IF ctx_span(follows)
          THEN /\ Free(follows)
               /\ nested' = nested \cup {Nested("on_follows_from", id, follows,
                                                 is_ancestor(follows, id, MaxSpans))}
               /\ failed' = (failed \/ ~extensions[follows].present)
          ELSE UNCHANGED <<nested, failed>>
    /\ pc' = [pc EXCEPT ![t] = Idle]
    /\ UNCHANGED <<layer_config, metrics_state, visit, now, timings, threads, registry,
                   extensions, tracer, stack, otel_stack, next_event, dropped, ops>>

\* event_span looking up the current span for every event without an
\* explicit parent it finds.
event_span_ignores_is_contextual(kind, parent, t) ==
    IF kind = "explicit" /\ ctx_span(parent) THEN parent
    ELSE lookup_current(t)

\* The span on_event records an event on (0: the event is ignored).
event_span(kind, parent, t) ==
    IF kind = "explicit" /\ ctx_span(parent) THEN parent
    ELSE IF kind = "contextual" THEN lookup_current(t)
    ELSE 0

\* on_event before it takes the span's extensions: the span is looked up and
\* the fields are visited.
on_event(t, kind, parent, level, fields) ==
    /\ pc[t] = Idle
    /\ IF kind = "explicit" THEN Known(parent) /\ Created(parent) ELSE parent = 0
    /\ next_event' = next_event + 1
    /\ LET visited == event_named(event_record(NewVisitor, fields))
           updates == visited.span_builder_updates
           ev == [n |-> next_event + 1, level |-> level, kind |-> kind,
                  parent |-> parent,
                  current |-> IF kind = "contextual" THEN lookup_current(t) ELSE 0,
                  thread |-> t, fields |-> fields,
                  name |-> visited.event_builder.name]
           id == event_span(kind, parent, t)
       IN IF id = 0
          THEN /\ dropped' = dropped \cup {ev}
               /\ UNCHANGED <<pc, nested>>
          ELSE /\ dropped' = dropped
               /\ nested' = nested \cup visit_nested("on_event", t, id)
               /\ pc' = [pc EXCEPT ![t] =
                            IF visit_blocks(t, id) THEN Blocked(id)
                            ELSE [Idle EXCEPT !.op = "on_event",
                                              !.id = id,
                                              !.ev = ev,
                                              !.updates = updates]]
    /\ UNCHANGED <<layer_config, metrics_state, visit, failed, now, timings, threads, registry,
                   extensions, tracer, stack, otel_stack, ops>>

\* The rest of on_event as add_event_with_timestamp does it: the event is
\* pushed on a pending builder and sent to the span only if it is started.
on_event_record_buffers(t) ==
    /\ pc[t].op = "on_event"
    /\ LET id == pc[t].id
           ev == pc[t].ev
           sid == extensions[id].parent_cx.sid
       IN IF extensions[id].present
          THEN /\ dropped' = dropped
               /\ IF extensions[id].builder.present
                  THEN /\ extensions' = [extensions EXCEPT
                              ![id].builder.events = Append(@, ev)]
                       /\ tracer' = tracer
                  ELSE /\ tracer' = span_add_event(
                                        update_span(pc[t].updates, tracer, sid),
                                        sid, ev)
                       /\ extensions' = extensions
          ELSE /\ dropped' = dropped \cup {ev}
               /\ UNCHANGED <<extensions, tracer>>
    /\ pc' = [pc EXCEPT ![t] = Idle]
    /\ UNCHANGED <<layer_config, metrics_state, untouched, threads, registry, stack, otel_stack,
                   next_event, ops>>

\* The rest of on_event, under the span's extensions: the span is started
\* and the status and the event are sent to it.
on_event_record(t) ==
    /\ pc[t].op = "on_event"
    /\ LET id == pc[t].id
           ev == pc[t].ev
       IN IF extensions[id].present
          THEN LET s == start_cx(extensions[id], id, tracer)
                   sid == s.data.parent_cx.sid
                   t1 == IF ev.level = "ERROR"
                         THEN span_set_status(s.tracer, sid, "Error:")
                         ELSE s.tracer
                   t2 == update_span(pc[t].updates, t1, sid)
               IN /\ extensions' = [extensions EXCEPT ![id] = s.data]
                  /\ tracer' = span_add_event(t2, sid, ev)
                  /\ dropped' = dropped
          ELSE /\ dropped' = dropped \cup {ev}
               /\ UNCHANGED <<extensions, tracer>>
    /\ pc' = [pc EXCEPT ![t] = Idle]
    /\ UNCHANGED <<layer_config, metrics_state, untouched, threads, registry, stack, otel_stack,
                   next_event, ops>>

\* on_close taking no Timings out of the extensions.
remove_timings_none(id) == NoTimings

\* extensions.remove::<Timings>() of on_close, done only with
\* tracked_inactivity.
remove_timings(id) == IF tracked_inactivity THEN timings[id] ELSE NoTimings

\* on_close: the host closes a span no thread has entered or is using.  The
\* layer takes the Timings and the OtelData out of the extensions, starts a
\* pending builder, sets the timing attributes and ends the span.
on_close(t, id) ==
    /\ pc[t] = Idle
    /\ Live(id) /\ Quiet(id)
    /\ \A u \in threads : \A i \in 1 .. Len(stack[u]) : stack[u][i] # id
    /\ registry' = [registry EXCEPT
                        ![id] = IF @ = "open" /\ extensions[id].present
                                THEN "closed" ELSE "filtered_closed"]
    /\ extensions' = [extensions EXCEPT ![id] = NoData]
    /\ IF registry[id] = "open" /\ extensions[id].present
       THEN LET otel_data == extensions[id]
                pending == otel_data.builder.present
                span == start_with_context(otel_data.builder, otel_data.parent_cx, id)
                trc == IF pending THEN Append(tracer, span) ELSE tracer
                cx == IF pending
                      THEN with_span(otel_data.parent_cx, Len(trc), span.sampled)
                      ELSE otel_data.parent_cx
                tm == remove_timings(id)
                trc1 == IF tm.present
                        THEN span_set_attributes(trc, cx.sid, tm.busy, tm.idle)
                        ELSE trc
            IN tracer' = span_end(trc1, cx.sid,
                                  IF otel_data.end_time # <<>>
                                  THEN otel_data.end_time[1] ELSE now)
       ELSE tracer' = tracer
    /\ timings' = IF registry[id] = "open" /\ tracked_inactivity
                  THEN [timings EXCEPT ![id] = NoTimings]
                  ELSE timings
    /\ UNCHANGED <<layer_config, metrics_state, aside, now, threads, stack, otel_stack, pc,
                   next_event, dropped, ops>>

\* ------------------------------------------------- OpenTelemetrySpanExt
\* WithContext::with_context / OpenTelemetryLayer::get_context: f is applied
\* to the OtelData of the span, if it has one.
has_data(id) == Live(id) /\ Created(id) /\ extensions[id].present

\* set_parent leaving the builder's cached sampling result in place.
set_parent_keeps_sampling_result(t, id, cx) ==
    /\ pc[t] = Idle
    /\ Live(id) /\ Created(id)
    /\ ops' = Append(ops, Call("set_parent", id, cx, NoUpdates, None))
    /\ IF has_data(id)
       THEN extensions' = [extensions EXCEPT ![id].parent_cx = cx]
       ELSE extensions' = extensions
    /\ UNCHANGED <<layer_config, metrics_state, untouched, threads, registry, tracer, stack,
                   otel_stack, pc, next_event, dropped>>

\* OpenTelemetrySpanExt::set_parent
set_parent(t, id, cx) ==
    /\ pc[t] = Idle
    /\ Live(id) /\ Created(id)
    /\ ops' = Append(ops, Call("set_parent", id, cx, NoUpdates, None))
    /\ IF has_data(id)
       THEN extensions' = [extensions EXCEPT
                ![id].parent_cx = cx,
                ![id].builder.sampling_result = None]
       ELSE extensions' = extensions
    /\ UNCHANGED <<layer_config, metrics_state, untouched, threads, registry, tracer, stack,
                   otel_stack, pc, next_event, dropped>>

\* OpenTelemetrySpanExt::context
context(id) == IF has_data(id) THEN extensions[id].parent_cx ELSE EmptyCx

\* OpenTelemetrySpanExt::set_attribute
set_attribute(t, id, key) ==
    /\ pc[t] = Idle
    /\ Live(id) /\ Created(id)
    /\ ops' = Append(ops, Call("set_attribute", id, EmptyCx, NoUpdates, None))
    /\ IF has_data(id)
       THEN IF extensions[id].builder.present
            THEN /\ extensions' = [extensions EXCEPT
                        ![id].builder.attributes = Append(@, key)]
                 /\ tracer' = tracer
            ELSE /\ tracer' = update_span([NoUpdates EXCEPT !.attributes = <<key>>],
                                          tracer, extensions[id].parent_cx.sid)
                 /\ extensions' = extensions
       ELSE UNCHANGED <<extensions, tracer>>
    /\ UNCHANGED <<layer_config, metrics_state, untouched, threads, registry, stack, otel_stack, pc,
                   next_event, dropped>>

\* OpenTelemetrySpanExt::set_status
set_status(t, id, status) ==
    /\ pc[t] = Idle
    /\ Live(id) /\ Created(id)
    /\ ops' = Append(ops, Call("set_status", id, EmptyCx, NoUpdates, status))
    /\ IF has_data(id)
       THEN IF extensions[id].builder.present
            THEN /\ extensions' = [extensions EXCEPT ![id].builder.status = status]
                 /\ tracer' = tracer
            ELSE /\ tracer' = span_set_status(tracer, extensions[id].parent_cx.sid,
                                              status)
                 /\ extensions' = extensions
       ELSE UNCHANGED <<extensions, tracer>>
    /\ UNCHANGED <<layer_config, metrics_state, untouched, threads, registry, stack, otel_stack, pc,
                   next_event, dropped>>

\* OpenTelemetrySpanExt::add_event / add_event_with_timestamp
add_event(t, id) ==
    /\ pc[t] = Idle
    /\ Live(id) /\ Created(id)
    /\ next_event' = next_event + 1
    /\ LET ev == [n |-> next_event + 1, level |-> "INFO", kind |-> "add_event",
                  parent |-> id, current |-> 0, thread |-> t, fields |-> <<>>,
                  name |-> "add_event"]
       IN IF has_data(id)
          THEN /\ dropped' = dropped
               /\ IF extensions[id].builder.present
                  THEN /\ extensions' = [extensions EXCEPT
                              ![id].builder.events = Append(@, ev)]
                       /\ tracer' = tracer
                  ELSE /\ tracer' = span_add_event(tracer,
                                        extensions[id].parent_cx.sid, ev)
                       /\ extensions' = extensions
          ELSE /\ dropped' = dropped \cup {ev}
               /\ UNCHANGED <<extensions, tracer>>
    /\ ops' = Append(ops, Call("add_event", id, EmptyCx, NoUpdates, None))
    /\ UNCHANGED <<layer_config, metrics_state, untouched, threads, registry, stack, otel_stack, pc>>

\* SpanContext::is_valid of the span context a context carries: the empty
\* context carries none.
is_valid(cx) == cx.sid # 0

\* OpenTelemetrySpanExt::add_link / add_link_with_attributes
add_link(t, id, cx) ==
    /\ pc[t] = Idle
    /\ Live(id) /\ Created(id)
    /\ ops' = Append(ops, Call("add_link", id, cx, NoUpdates, None))
    /\ IF is_valid(cx) /\ has_data(id) /\ extensions[id].builder.present
       THEN extensions' = [extensions EXCEPT ![id].builder.links = Append(@, cx.sid)]
       ELSE extensions' = extensions
    /\ UNCHANGED <<layer_config, metrics_state, untouched, threads, registry, tracer, stack,
                   otel_stack, pc, next_event, dropped>>

\* PreSampledTracer::sampled_context: the sampling decision for the pending
\* builder is made against the current parent context and cached on it.
sampled_context(t, id) ==
    /\ pc[t] = Idle
    /\ has_data(id)
    /\ extensions[id].builder.present
    /\ ops' = Append(ops, Call("sampled_context", id, EmptyCx, NoUpdates, None))
    /\ extensions' = [extensions EXCEPT ![id].builder.sampling_result =
            IF should_sample(extensions[id].parent_cx)
            THEN "RecordAndSample" ELSE "Drop"]
    /\ UNCHANGED <<layer_config, metrics_state, untouched, threads, registry, tracer, stack,
                   otel_stack, pc, next_event, dropped>>

\* Context::attach by the program: cx becomes the thread's current context.
attach(t, cx) ==
    /\ pc[t] = Idle
    /\ ops' = Append(ops, Call("attach", 0, cx, NoUpdates, None))
    /\ otel_stack' = [otel_stack EXCEPT ![t] = Append(@, [id |-> 0, cx |-> cx])]
    /\ UNCHANGED <<layer_config, metrics_state, untouched, threads, registry, extensions, tracer,
                   stack, pc, next_event, dropped>>

\* Time passes: the clock shows the next reading.
tick ==
    /\ now' = now + 1
    /\ UNCHANGED <<layer_config, metrics_state, aside, timings, threads, registry, extensions, tracer,
                   stack, otel_stack, pc, next_event, dropped, ops>>

\* The SpanEventVisitor gets the next field of the event.
visit_field ==
    /\ visit.next <= Len(visit.fields)
    /\ visit' = [visit EXCEPT !.v = record(@, visit.fields[visit.next]),
                              !.next = @ + 1]
    /\ UNCHANGED <<layer_config, metrics_state, failed, nested, now, timings, threads, registry, extensions,
                   tracer, stack, otel_stack, pc, next_event, dropped, ops>>

\* on_event names the event the visitor has left without a name.
visit_named ==
    /\ visit.next > Len(visit.fields)
    /\ ~visit.named
    /\ visit' = [visit EXCEPT !.v = event_named(@), !.named = TRUE]
    /\ UNCHANGED <<layer_config, metrics_state, failed, nested, now, timings, threads, registry, extensions,
                   tracer, stack, otel_stack, pc, next_event, dropped, ops>>

\* ----------------------------------------------------- SpanAttributeVisitor
SPAN_NAME_FIELD == "otel.name"
SPAN_KIND_FIELD == "otel.kind"
SPAN_STATUS_CODE_FIELD == "otel.status_code"
SPAN_STATUS_MESSAGE_FIELD == "otel.status_message"

AsciiUpper == "ABCDEFGHIJKLMNOPQRSTUVWXYZ"
AsciiLower == "abcdefghijklmnopqrstuvwxyz"

\* u8::to_ascii_lowercase of the one character c
char_to_ascii_lowercase(c) ==
    IF \E i \in 1 .. Len(AsciiUpper) : SubSeq(AsciiUpper, i, i) = c
    THEN LET i == CHOOSE i \in 1 .. Len(AsciiUpper) : SubSeq(AsciiUpper, i, i) = c
         IN SubSeq(AsciiLower, i, i)
    ELSE c

RECURSIVE to_ascii_lowercase(_)
to_ascii_lowercase(s) ==
    IF Len(s) = 0 THEN s
    ELSE char_to_ascii_lowercase(SubSeq(s, 1, 1))
         \o to_ascii_lowercase(SubSeq(s, 2, Len(s)))

\* str::eq_ignore_ascii_case
eq_ignore_ascii_case(a, b) == to_ascii_lowercase(a) = to_ascii_lowercase(b)

\* str_to_span_kind telling the kinds by their exact spelling.
str_to_span_kind_exact(s) ==
    IF s \in {"server", "client", "producer", "consumer", "internal"} THEN s
    ELSE None

str_to_span_kind(s) ==
    CASE eq_ignore_ascii_case(s, "server") -> "server"
      [] eq_ignore_ascii_case(s, "client") -> "client"
      [] eq_ignore_ascii_case(s, "producer") -> "producer"
      [] eq_ignore_ascii_case(s, "consumer") -> "consumer"
      [] eq_ignore_ascii_case(s, "internal") -> "internal"
      [] OTHER -> None

str_to_status(s) ==
    CASE eq_ignore_ascii_case(s, "ok") -> "Ok"
      [] eq_ignore_ascii_case(s, "error") -> Status_error("")
      [] OTHER -> "Unset"

\* SpanAttributeVisitor over SpanBuilderUpdates::default()
NewAttributeVisitor == [span_builder_updates |-> NoUpdates]

\* SpanAttributeVisitor::record
attribute_record(v, key) ==
    [v EXCEPT !.span_builder_updates.attributes = Append(@, key)]

attribute_record_bool(v, name, value) == attribute_record(v, name)

attribute_record_f64(v, name, value) == attribute_record(v, name)

attribute_record_i64(v, name, value) == attribute_record(v, name)

\* The arms of record_str and record_debug: text is value for a &str and
\* format!("{:?}", value) for a Debug value.
attribute_record_text(v, name, text) ==
    CASE name = SPAN_NAME_FIELD -> [v EXCEPT !.span_builder_updates.name = text]
      [] name = SPAN_KIND_FIELD ->
            [v EXCEPT !.span_builder_updates.span_kind = str_to_span_kind(text)]
      [] name = SPAN_STATUS_CODE_FIELD ->
            [v EXCEPT !.span_builder_updates.status = str_to_status(text)]
      [] name = SPAN_STATUS_MESSAGE_FIELD ->
            [v EXCEPT !.span_builder_updates.status = Status_error(text)]
      [] OTHER -> attribute_record(v, name)

attribute_record_str(v, name, value) == attribute_record_text(v, name, value.s)

attribute_record_debug(v, name, value) ==
    attribute_record_text(v, name, debug_format(value))

\* record_error: the exception attributes, then the field itself and its
\* source chain.
attribute_record_error(v, name, value) ==
    LET v1 == IF sem_conv_config.error_fields_to_exceptions
              THEN attribute_record(attribute_record(v, "exception.message"),
                                    "exception.stacktrace")
              ELSE v
    IN attribute_record(attribute_record(v1, name), name \o ".chain")

\* Value::record: the Visit method of the value's type.
attribute_visit(v, field) ==
    CASE field.value.type = "bool" -> attribute_record_bool(v, field.name, field.value)
      [] field.value.type = "f64" -> attribute_record_f64(v, field.name, field.value)
      [] field.value.type = "i64" -> attribute_record_i64(v, field.name, field.value)
      [] field.value.type = "str" -> attribute_record_str(v, field.name, field.value)
      [] field.value.type = "debug" ->
            attribute_record_debug(v, field.name, field.value)
      [] OTHER -> attribute_record_error(v, field.name, field.value)

\* Attributes::record / Record::record: the fields are visited in the order
\* of the span's field set.
RECURSIVE values_record(_, _)
values_record(v, fields) ==
    IF fields = <<>> THEN v
    ELSE values_record(attribute_visit(v, fields[1]),
                       SubSeq(fields, 2, Len(fields)))

\* The SpanBuilderUpdates on_new_span and on_record get from the fields.
field_updates(fields) ==
    values_record(NewAttributeVisitor, fields).span_builder_updates

\* The fields of a span about to be visited.
NewAttributeVisit(fields) ==
    [fields |-> fields, next |-> 1, v |-> NewAttributeVisitor, named |-> TRUE]

\* The SpanAttributeVisitor gets the next field of the span.
visit_attribute ==
    /\ visit.next <= Len(visit.fields)
    /\ visit' = [visit EXCEPT !.v = attribute_visit(@, visit.fields[visit.next]),
                              !.next = @ + 1]
    /\ UNCHANGED <<layer_config, metrics_state, failed, nested, now, timings, threads, registry, extensions,
                   tracer, stack, otel_stack, pc, next_event, dropped, ops>>

\* ------------------------------------------------------------ MetricVisitor
METRIC_PREFIX_MONOTONIC_COUNTER == "monotonic_counter."
METRIC_PREFIX_COUNTER == "counter."
METRIC_PREFIX_HISTOGRAM == "histogram."
METRIC_PREFIX_GAUGE == "gauge."

U64_MAX == 2 ^ Bits - 1
I64_MAX == 2 ^ (Bits - 1) - 1
I64_MIN == 0 - 2 ^ (Bits - 1)

\* str::starts_with
starts_with(name, prefix) ==
    Len(name) >= Len(prefix) /\ SubSeq(name, 1, Len(prefix)) = prefix

\* str::strip_prefix: <<>> (None) or the rest of the name.
strip_prefix(name, prefix) ==
    IF starts_with(name, prefix)
    THEN <<SubSeq(name, Len(prefix) + 1, Len(name))>>
    ELSE <<>>

\* value as u64 of an i64, value as i64 of a u64
as_u64(value) == value % (2 ^ Bits)
as_i64(value) == IF value > I64_MAX THEN value - 2 ^ Bits ELSE value

\* A variant of InstrumentType with its value (that of an f64 in tenths).
InstrumentType(type, value) == [type |-> type, value |-> value]

NewMetricVisitor == [attributes |-> <<>>, visited_metrics |-> <<>>, eprintln |-> 0]

\* self.visited_metrics.push((metric_name, instrument_type))
push_metric(v, metric_name, type, value) ==
    [v EXCEPT !.visited_metrics =
        Append(@, [name |-> metric_name[1], instrument |-> InstrumentType(type, value)])]

\* self.attributes.push(KeyValue::new(field.name(), value))
push_attribute(v, name, value) ==
    [v EXCEPT !.attributes = Append(@, KeyValue(name, value))]

\* record_u64 taking a value of any size under counter.
MetricVisitor_record_u64_unchecked(v, name, value) ==
    IF strip_prefix(name, METRIC_PREFIX_GAUGE) # <<>>
    THEN push_metric(v, strip_prefix(name, METRIC_PREFIX_GAUGE), "GaugeU64", value)
    ELSE IF strip_prefix(name, METRIC_PREFIX_MONOTONIC_COUNTER) # <<>>
    THEN push_metric(v, strip_prefix(name, METRIC_PREFIX_MONOTONIC_COUNTER),
                     "CounterU64", value)
    ELSE IF strip_prefix(name, METRIC_PREFIX_COUNTER) # <<>>
    THEN push_metric(v, strip_prefix(name, METRIC_PREFIX_COUNTER),
                     "UpDownCounterI64", as_i64(value))
    ELSE IF strip_prefix(name, METRIC_PREFIX_HISTOGRAM) # <<>>
    THEN push_metric(v, strip_prefix(name, METRIC_PREFIX_HISTOGRAM),
                     "HistogramU64", value)
    ELSE IF value <= I64_MAX
    THEN push_attribute(v, name, Value("i64", FALSE, as_i64(value), ""))
    ELSE v

MetricVisitor_record_u64(v, name, value) ==
    IF strip_prefix(name, METRIC_PREFIX_GAUGE) # <<>>
    THEN push_metric(v, strip_prefix(name, METRIC_PREFIX_GAUGE), "GaugeU64", value)
    ELSE IF strip_prefix(name, METRIC_PREFIX_MONOTONIC_COUNTER) # <<>>
    THEN push_metric(v, strip_prefix(name, METRIC_PREFIX_MONOTONIC_COUNTER),
                     "CounterU64", value)
    ELSE IF strip_prefix(name, METRIC_PREFIX_COUNTER) # <<>>
    THEN IF value <= I64_MAX
         THEN push_metric(v, strip_prefix(name, METRIC_PREFIX_COUNTER),
                          "UpDownCounterI64", as_i64(value))
         ELSE [v EXCEPT !.eprintln = @ + 1]
    ELSE IF strip_prefix(name, METRIC_PREFIX_HISTOGRAM) # <<>>
    THEN push_metric(v, strip_prefix(name, METRIC_PREFIX_HISTOGRAM),
                     "HistogramU64", value)
    ELSE IF value <= I64_MAX
    THEN push_attribute(v, name, Value("i64", FALSE, as_i64(value), ""))
    ELSE v

MetricVisitor_record_f64(v, name, value) ==
    IF strip_prefix(name, METRIC_PREFIX_GAUGE) # <<>>
    THEN push_metric(v, strip_prefix(name, METRIC_PREFIX_GAUGE), "GaugeF64", value)
    ELSE IF strip_prefix(name, METRIC_PREFIX_MONOTONIC_COUNTER) # <<>>
    THEN push_metric(v, strip_prefix(name, METRIC_PREFIX_MONOTONIC_COUNTER),
                     "CounterF64", value)
    ELSE IF strip_prefix(name, METRIC_PREFIX_COUNTER) # <<>>
    THEN push_metric(v, strip_prefix(name, METRIC_PREFIX_COUNTER),
                     "UpDownCounterF64", value)
    ELSE IF strip_prefix(name, METRIC_PREFIX_HISTOGRAM) # <<>>
    THEN push_metric(v, strip_prefix(name, METRIC_PREFIX_HISTOGRAM),
                     "HistogramF64", value)
    ELSE push_attribute(v, name, Value("f64", FALSE, value, ""))

\* record_i64 stripping the counter prefix where monotonic_counter. is
\* found.
MetricVisitor_record_i64_strips_counter(v, name, value) ==
    IF strip_prefix(name, METRIC_PREFIX_GAUGE) # <<>>
    THEN push_metric(v, strip_prefix(name, METRIC_PREFIX_GAUGE), "GaugeI64", value)
    ELSE IF strip_prefix(name, METRIC_PREFIX_MONOTONIC_COUNTER) # <<>>
    THEN push_metric(v, <<SubSeq(name, Len(METRIC_PREFIX_COUNTER) + 1, Len(name))>>,
                     "CounterU64", as_u64(value))
    ELSE IF strip_prefix(name, METRIC_PREFIX_COUNTER) # <<>>
    THEN push_metric(v, strip_prefix(name, METRIC_PREFIX_COUNTER),
                     "UpDownCounterI64", value)
    ELSE push_attribute(v, name, Value("i64", FALSE, value, ""))

MetricVisitor_record_i64(v, name, value) ==
    IF strip_prefix(name, METRIC_PREFIX_GAUGE) # <<>>
    THEN push_metric(v, strip_prefix(name, METRIC_PREFIX_GAUGE), "GaugeI64", value)
    ELSE IF strip_prefix(name, METRIC_PREFIX_MONOTONIC_COUNTER) # <<>>
    THEN push_metric(v, strip_prefix(name, METRIC_PREFIX_MONOTONIC_COUNTER),
                     "CounterU64", as_u64(value))
    ELSE IF strip_prefix(name, METRIC_PREFIX_COUNTER) # <<>>
    THEN push_metric(v, strip_prefix(name, METRIC_PREFIX_COUNTER),
                     "UpDownCounterI64", value)
    ELSE push_attribute(v, name, Value("i64", FALSE, value, ""))

\* record_str, record_bool and record_debug (format!("{value:?}"), a
\* string)
MetricVisitor_record_str(v, name, value) == push_attribute(v, name, value)
MetricVisitor_record_bool(v, name, value) == push_attribute(v, name, value)
MetricVisitor_record_debug(v, name, value) ==
    push_attribute(v, name, Value("str", FALSE, 0, debug_format(value)))

\* Field values reach the Visit method of their type.
MetricVisitor_record(v, field) ==
    CASE field.value.type = "u64" -> MetricVisitor_record_u64(v, field.name, field.value.n)
      [] field.value.type = "i64" -> MetricVisitor_record_i64(v, field.name, field.value.n)
      [] field.value.type = "f64" -> MetricVisitor_record_f64(v, field.name, field.value.n)
      [] field.value.type = "bool" -> MetricVisitor_record_bool(v, field.name, field.value)
      [] field.value.type = "str" -> MetricVisitor_record_str(v, field.name, field.value)
      [] OTHER -> MetricVisitor_record_debug(v, field.name, field.value)

\* event.record(&mut metric_visitor): the fields in their order.
RECURSIVE metric_event_record(_, _)
metric_event_record(v, fields) ==
    IF fields = <<>> THEN v
    ELSE metric_event_record(MetricVisitor_record(v, Head(fields)), Tail(fields))

\* ------------------------------------------------------------ MetricsFilter
\* The metadata of a callsite: of an event or of a span, with the names of
\* its fields.
Metadata(is_event, names) == [is_event |-> is_event, names |-> names]

\* is_metrics_event looking at events and spans alike.
is_metrics_event_of_any_kind(meta) ==
    \E i \in 1 .. Len(meta.names) :
        \/ starts_with(meta.names[i], METRIC_PREFIX_COUNTER)
        \/ starts_with(meta.names[i], METRIC_PREFIX_MONOTONIC_COUNTER)
        \/ starts_with(meta.names[i], METRIC_PREFIX_HISTOGRAM)
        \/ starts_with(meta.names[i], METRIC_PREFIX_GAUGE)

is_metrics_event(meta) ==
    /\ meta.is_event
    /\ \E i \in 1 .. Len(meta.names) :
          \/ starts_with(meta.names[i], METRIC_PREFIX_COUNTER)
          \/ starts_with(meta.names[i], METRIC_PREFIX_MONOTONIC_COUNTER)
          \/ starts_with(meta.names[i], METRIC_PREFIX_HISTOGRAM)
          \/ starts_with(meta.names[i], METRIC_PREFIX_GAUGE)

\* Filter::enabled and Filter::callsite_enabled of MetricsFilter
enabled(meta) == is_metrics_event(meta)
callsite_enabled(meta) == IF is_metrics_event(meta) THEN "always" ELSE "never"

\* ---------------------------------------------------------- InstrumentLayer
\* A thread outside InstrumentLayer::on_event.
MetricsIdle == [phase |-> "idle", visited_metrics |-> <<>>, attributes |-> <<>>]

\* A thread in the for_each of on_event: about to look up, under the read
\* lock, the instrument of the first metric that is left.
Updating(visited_metrics, attributes) ==
    IF visited_metrics = <<>> THEN MetricsIdle
    ELSE [phase |-> "read", visited_metrics |-> visited_metrics,
          attributes |-> attributes]

\* The map of Instruments and the name that a metric is looked up with.
MetricKey(metric) == <<metric.instrument.type, metric.name>>

\* ctr.add(value, attributes), rec.record(value, attributes), called under
\* the read or the write lock of the map.
update(mtr, index, value, attributes, lock) ==
    [mtr EXCEPT ![index].points =
        Append(@, [value |-> value, attributes |-> attributes, lock |-> lock])]

\* meter.u64_counter(metric_name).build() and the like
build(mtr, key) == Append(mtr, [type |-> key[1], name |-> key[2], points |-> <<>>])

\* The maps and the meter after lock.insert(name, insert()).
insert_always(map, mtr, key) ==
    [instruments |-> [k \in DOMAIN map \cup {key} |->
                         IF k = key THEN Len(mtr) + 1 ELSE map[k]],
     meter |-> build(mtr, key)]

\* The maps and the meter after lock.entry(name).or_insert_with(insert).
entry_or_insert_with(map, mtr, key) ==
    IF key \in DOMAIN map
    THEN [instruments |-> map, meter |-> mtr]
    ELSE [instruments |-> [k \in DOMAIN map \cup {key} |->
                              IF k = key THEN Len(mtr) + 1 ELSE map[k]],
          meter |-> build(mtr, key)]

\* InstrumentLayer::on_event up to the for_each: the fields are visited.
InstrumentLayer_on_event(t, fields) ==
    LET v == metric_event_record(NewMetricVisitor, fields)
    IN /\ stderr' = stderr + v.eprintln
       /\ mpc' = [mpc EXCEPT ![t] = Updating(v.visited_metrics, v.attributes)]

\* The host offers a span or an event to the filtered layer: the filter
\* decides, and on_event gets the events it lets pass (on_new_span does
\* nothing).
metrics_dispatch(t, is_event, fields) ==
    /\ mpc[t].phase = "idle"
    /\ LET meta == Metadata(is_event, [i \in 1 .. Len(fields) |-> fields[i].name])
       IN /\ offered' = Append(offered,
                 [meta |-> meta, fields |-> fields, thread |-> t,
                  interest |-> callsite_enabled(meta),
                  enabled |-> enabled(meta),
                  received |-> (callsite_enabled(meta) # "never"
                                   /\ enabled(meta) /\ is_event)])
          /\ IF callsite_enabled(meta) # "never" /\ enabled(meta) /\ is_event
             THEN InstrumentLayer_on_event(t, fields)
             ELSE UNCHANGED <<stderr, mpc>>
    /\ UNCHANGED <<layer_config, span_state, threads, instruments, meter>>

\* update_or_insert going on to the write lock after it has updated the
\* instrument under the read lock.
update_or_insert_read_no_return(t) ==
    /\ mpc[t].phase = "read"
    /\ LET metric == Head(mpc[t].visited_metrics)
           key == MetricKey(metric)
       IN /\ meter' = IF key \in DOMAIN instruments
                      THEN update(meter, instruments[key], metric.instrument.value,
                                  mpc[t].attributes, "read")
                      ELSE meter
          /\ mpc' = [mpc EXCEPT ![t].phase = "write"]
    /\ UNCHANGED <<layer_config, span_state, threads, instruments, stderr, offered>>

\* update_or_insert under the read lock: an instrument that is found is
\* updated and the next metric is taken up.
update_or_insert_read(t) ==
    /\ mpc[t].phase = "read"
    /\ LET metric == Head(mpc[t].visited_metrics)
           key == MetricKey(metric)
       IN IF key \in DOMAIN instruments
          THEN /\ meter' = update(meter, instruments[key], metric.instrument.value,
                                  mpc[t].attributes, "read")
               /\ mpc' = [mpc EXCEPT ![t] = Updating(Tail(mpc[t].visited_metrics),
                                                    mpc[t].attributes)]
          ELSE /\ meter' = meter
               /\ mpc' = [mpc EXCEPT ![t].phase = "write"]
    /\ UNCHANGED <<layer_config, span_state, threads, instruments, stderr, offered>>

\* update_or_insert under the write lock: the instrument is built unless
\* the map has one by now, and updated.
update_or_insert_write(t) ==
    /\ mpc[t].phase = "write"
    /\ LET metric == Head(mpc[t].visited_metrics)
           key == MetricKey(metric)
           entry == entry_or_insert_with(instruments, meter, key)
       IN /\ instruments' = entry.instruments
          /\ meter' = update(entry.meter, entry.instruments[key],
                             metric.instrument.value, mpc[t].attributes, "write")
    /\ mpc' = [mpc EXCEPT ![t] = Updating(Tail(mpc[t].visited_metrics),
                                         mpc[t].attributes)]
    /\ UNCHANGED <<layer_config, span_state, threads, stderr, offered>>

\* ---------------------------------------------------------- specifications
\* The layer is built with or without activate_context and configured with
\* one of the settings of tracked and one of configs; one of events is
\* about to be visited.
InitVisiting(ts, tracked, configs, visits) ==
    /\ activate_context \in BOOLEAN
    /\ tracked_inactivity \in tracked
    /\ sem_conv_config \in configs
    /\ visit \in visits
    /\ failed = FALSE
    /\ nested = {}
    /\ now = 0
    /\ timings = [i \in SpanIds |-> NoTimings]
    /\ threads = ts
    /\ registry = [i \in SpanIds |-> "none"]
    /\ extensions = [i \in SpanIds |-> NoData]
    /\ tracer = <<>>
    /\ stack = [t \in ts |-> <<>>]
    /\ otel_stack = [t \in ts |-> <<>>]
    /\ pc = [t \in ts |-> Idle]
    /\ next_event = 0
    /\ dropped = {}
    /\ ops = <<>>
    /\ instruments = <<>>
    /\ meter = <<>>
    /\ stderr = 0
    /\ offered = <<>>
    /\ mpc = [t \in ts |-> MetricsIdle]

InitWith(ts, tracked, configs, events) ==
    InitVisiting(ts, tracked, configs, {NewVisit(fields) : fields \in events})
\* The host creates, within the budget of spans spans, a span the layer
\* gets no on_new_span for.
FilteredSpans(spans) ==
    \E t \in threads, seen \in BOOLEAN :
        NextId <= spans /\ new_span_filtered(t, seen)

\* The span callbacks of the Layer implementation, within the budget of
\* spans spans, each thread entering at most depth spans at once.
SpanCallbacks(spans, depth) ==
    \E t \in threads :
        \/ \E kind \in {"explicit", "contextual", "root"}, parent \in 0 .. MaxSpans :
              NextId <= spans /\ on_new_span(t, kind, parent, NoUpdates)
        \/ on_new_span_insert(t)
        \/ \E id \in SpanIds :
              Len(stack[t]) < depth /\ ~Entered(t, id) /\ on_enter(t, id)
        \/ on_exit(t)
        \/ \E id \in SpanIds : on_close(t, id)

\* on_event, within the budget of events events.
EventCallbacks(events) ==
    \E t \in threads :
        \/ \E kind \in {"explicit", "contextual", "root"}, parent \in 0 .. MaxSpans :
              next_event < events /\ on_event(t, kind, parent, "INFO", <<>>)
        \/ on_event_record(t)

\* The events of the status specification: none, an error field of each
\* kind, a message before an error field.
StatusEvents ==
    {<<>>,
     <<[name |-> "error", value |-> Value("debug", FALSE, 0, "boom")]>>,
     <<[name |-> "error", value |-> Value("str", FALSE, 0, "boom")]>>,
     <<[name |-> "error", value |-> Value("i64", FALSE, 7, "")]>>,
     <<[name |-> "error", value |-> Value("error", FALSE, 0, "boom")]>>,
     <<[name |-> "message", value |-> Value("str", FALSE, 0, "boom")],
       [name |-> "error", value |-> Value("debug", FALSE, 0, "boom")]>>}

\* on_event for events of either level with fields, whose parent is given,
\* within the budget of events events.
LevelEvents(events) ==
    \E t \in threads :
        \/ \E parent \in SpanIds, level \in {"INFO", "ERROR"}, fields \in StatusEvents :
              next_event < events /\ on_event(t, "explicit", parent, level, fields)
        \/ on_event_record(t)

\* on_record, within the budget of calls calls.
RecordCallbacks(calls) ==
    \E t \in threads, id \in SpanIds, updates \in FieldUpdates :
        Len(ops) < calls /\ on_record(t, id, updates)

\* on_follows_from, within the budget of calls calls.
FollowsCallbacks(calls) ==
    \E t \in threads, id \in SpanIds, follows \in SpanIds :
        Len(ops) < calls /\ on_follows_from(t, id, follows)

\* The callbacks that take the extensions of two spans, among threads:
\* each waits for extensions another thread holds.
LockingCallbacks(spans, calls) ==
    \E t \in threads :
        \/ \E kind \in {"explicit", "contextual", "root"}, parent \in 0 .. MaxSpans :
              /\ NextId <= spans
              /\ parent_locked(kind, parent, t) # 0 => Free(parent_locked(kind, parent, t))
              /\ on_new_span(t, kind, parent, NoUpdates)
        \/ on_new_span_insert(t)
        \/ \E id \in SpanIds : Free(id) /\ ~Entered(t, id) /\ on_enter(t, id)
        \/ \E id \in SpanIds : Free(id) /\ on_close(t, id)
        \/ \E id \in SpanIds, follows \in SpanIds :
              Len(ops) < calls /\ on_follows_from_extensions(t, id, follows)
        \/ on_follows_from_follows_extensions(t)

\* set_parent and what decides the sampling of a span.
ParentCalls(calls) ==
    \E t \in threads :
        \/ \E id \in SpanIds, cx \in Contexts : Len(ops) < calls /\ set_parent(t, id, cx)
        \/ \E id \in SpanIds : Len(ops) < calls /\ sampled_context(t, id)

\* Context::attach by the program.
AttachCalls(calls) ==
    \E t \in threads, cx \in RemoteCxs : Len(ops) < calls /\ attach(t, cx)

\* The other calls of OpenTelemetrySpanExt.
SpanExtCalls(calls, events) ==
    \E t \in threads :
        \/ \E id \in SpanIds : Len(ops) < calls /\ set_attribute(t, id, "a")
        \/ \E id \in SpanIds, status \in {"Ok", "Error:x"} :
              Len(ops) < calls /\ set_status(t, id, status)
        \/ \E id \in SpanIds :
              Len(ops) < calls /\ next_event < events /\ add_event(t, id)

\* A thread enters a span it has already entered, each thread entering at
\* most depth spans at once.
ReEntries(depth) ==
    \E t \in threads, id \in SpanIds :
        Len(stack[t]) < depth /\ Entered(t, id) /\ on_enter(t, id)

\* The clock advances by at most ticks readings; a callback takes less
\* than one reading.
Clock(ticks) == now < ticks /\ (\A t \in threads : pc[t] = Idle) /\ tick

\* One thread, a parent and a child, every callback and call; the layer
\* is configured with_tracked_inactivity(false).
Init == InitWith({1}, {FALSE}, {DefaultSemConv}, {<<>>})

Next ==
    \/ FilteredSpans(MaxSpans - 1)
    \/ SpanCallbacks(MaxSpans - 1, MaxDepth)
    \/ EventCallbacks(MaxEvents)
    \/ RecordCallbacks(MaxOps)
    \/ FollowsCallbacks(MaxOps)
    \/ ParentCalls(MaxOps)
    \/ SpanExtCalls(MaxOps, MaxEvents)

Spec == Init /\ [][Next]_vars

\* One thread, a parent and a child: the callbacks and the calls that add
\* to a span.
NextEvents ==
    \/ FilteredSpans(MaxSpans - 1)
    \/ SpanCallbacks(MaxSpans - 1, MaxDepth)
    \/ EventCallbacks(MaxEvents)
    \/ RecordCallbacks(MaxOps)
    \/ SpanExtCalls(MaxOps, MaxEvents)

SpecEvents == Init /\ [][NextEvents]_vars

\* One thread, a tree of spans, some of them filtered, under an attached
\* context.
NextTree ==
    \/ FilteredSpans(MaxSpans)
    \/ SpanCallbacks(MaxSpans, MaxDepth)
    \/ EventCallbacks(MaxEvents - 1)
    \/ AttachCalls(MaxOps)

SpecTree == Init /\ [][NextTree]_vars

\* One thread, a parent and a child, re-parented and sampled.
NextSampling ==
    \/ SpanCallbacks(MaxSpans - 1, MaxDepth)
    \/ EventCallbacks(MaxEvents - 1)
    \/ ParentCalls(MaxOps + 1)

SpecSampling == Init /\ [][NextSampling]_vars

\* Two threads, the layer's callbacks alone.
InitMT == InitWith(ThreadIds, {FALSE}, {DefaultSemConv}, {<<>>})

NextMT ==
    \/ SpanCallbacks(MaxSpans - 1, MaxDepth - 1)
    \/ EventCallbacks(MaxEvents)
    \/ RecordCallbacks(MaxOps)

SpecMT == InitMT /\ [][NextMT]_vars

\* Two threads and one span, entered, re-entered and left while the clock
\* advances; inactivity tracking enabled or disabled.
InitTimings == InitWith(ThreadIds, BOOLEAN, {DefaultSemConv}, {<<>>})

NextTimings ==
    \/ SpanCallbacks(MaxSpans - 2, MaxDepth)
    \/ ReEntries(MaxDepth)
    \/ Clock(MaxClock)

SpecTimings == InitTimings /\ [][NextTimings]_vars

\* One thread, spans tracked, filtered and without record, following one
\* another.
NextFollows ==
    \/ FilteredSpans(MaxSpans)
    \/ SpanCallbacks(MaxSpans, MaxDepth - 1)
    \/ FollowsCallbacks(MaxOps + 1)

SpecFollows == Init /\ [][NextFollows]_vars

\* Two threads, spans created under one another, entered, closed and
\* following one another.
NextLocks == LockingCallbacks(MaxSpans - 1, MaxOps + 1)

SpecLocks == InitMT /\ [][NextLocks]_vars

\* A field of an event.
Field(name, value) == [name |-> name, value |-> value]

\* The names of the routing specification: one under each prefix, one under
\* two prefixes each way, one that only resembles a prefix and a plain one.
MetricNames ==
    <<"monotonic_counter.x", "counter.x", "histogram.x", "gauge.x",
      "gauge.counter.x", "counter.gauge.x", "counter", "x">>

\* Their values: of every type, the u64 around i64::MAX.
MetricValues ==
    <<Value("u64", FALSE, 5, ""), Value("u64", FALSE, I64_MAX, ""),
      Value("u64", FALSE, I64_MAX + 1, ""), Value("u64", FALSE, U64_MAX, ""),
      Value("i64", FALSE, 0 - 1, ""), Value("i64", FALSE, 3, ""),
      Value("f64", FALSE, 15, ""), Value("bool", TRUE, 0, ""),
      Value("str", FALSE, 0, "s"), Value("debug", FALSE, 0, "d")>>

\* update_metric for the metrics of an event, one after the other.
MetricUpdates ==
    \E t \in threads : update_or_insert_read(t) \/ update_or_insert_write(t)

\* The filtered layer is offered spans and events of one field, within the
\* budget of events events.
RoutedEvents(events) ==
    \E t \in threads, is_event \in BOOLEAN :
        \E i \in 1 .. Len(MetricNames), j \in 1 .. Len(MetricValues) :
            /\ Len(offered) < events
            /\ metrics_dispatch(t, is_event,
                                <<Field(MetricNames[i], MetricValues[j])>>)

\* One thread, spans and events of one field.
NextRouting == RoutedEvents(MaxEvents) \/ MetricUpdates

\* The events of the metrics specification: a counter updated twice, alone
\* and among plain fields, as u64 and as f64; a u64 at and above i64::MAX
\* under counter.; a plain u64 above i64::MAX; two metrics in one event;
\* a string and an i64 under a prefix.
MetricInputs ==
    <<<<Field("monotonic_counter.x", Value("u64", FALSE, 5, ""))>>,
      <<Field("monotonic_counter.x", Value("u64", FALSE, 3, ""))>>,
      <<Field("a", Value("str", FALSE, 0, "s")),
        Field("monotonic_counter.x", Value("u64", FALSE, 5, "")),
        Field("b", Value("i64", FALSE, 3, ""))>>,
      <<Field("counter.y", Value("u64", FALSE, I64_MAX + 1, "")),
        Field("monotonic_counter.x", Value("u64", FALSE, 3, "")),
        Field("k", Value("bool", TRUE, 0, ""))>>,
      <<Field("counter.y", Value("u64", FALSE, I64_MAX, ""))>>,
      <<Field("monotonic_counter.x", Value("f64", FALSE, 15, ""))>>,
      <<Field("big", Value("u64", FALSE, U64_MAX, "")),
        Field("gauge.g", Value("u64", FALSE, 5, ""))>>,
      <<Field("histogram.h", Value("u64", FALSE, 5, "")),
        Field("k", Value("str", FALSE, 0, "s")),
        Field("gauge.g", Value("i64", FALSE, 3, ""))>>,
      <<Field("counter.y", Value("str", FALSE, 0, "s")),
        Field("gauge.g", Value("u64", FALSE, 5, ""))>>,
      <<Field("histogram.h", Value("i64", FALSE, 3, "")),
        Field("gauge.g", Value("u64", FALSE, 5, ""))>>>>

\* The filtered layer is offered events of inputs, within the budget of
\* events events.
GivenEvents(events, inputs) ==
    \E t \in threads, n \in 1 .. Len(inputs) :
        Len(offered) < events /\ metrics_dispatch(t, TRUE, inputs[n])

\* Two threads, events of several fields.
NextMetrics == GivenEvents(MaxEvents, MetricInputs) \/ MetricUpdates

SpecMetrics == InitMT /\ [][NextMetrics]_vars

\* The field sets of the spans: each special field alone, as a &str or as a
\* Debug value, in several spellings, with a value the field does not know,
\* and together with other fields; a special name on a value that is no
\* text.
SpanFieldInputs ==
    <<<<Field(SPAN_NAME_FIELD, Value("str", FALSE, 0, "GET /"))>>,
      <<Field(SPAN_KIND_FIELD, Value("str", FALSE, 0, "server"))>>,
      <<Field(SPAN_KIND_FIELD, Value("str", FALSE, 0, "SERVER"))>>,
      <<Field(SPAN_KIND_FIELD, Value("str", FALSE, 0, "Client"))>>,
      <<Field(SPAN_KIND_FIELD, Value("debug", FALSE, 0, "Producer"))>>,
      <<Field(SPAN_KIND_FIELD, Value("str", FALSE, 0, "consumer"))>>,
      <<Field(SPAN_KIND_FIELD, Value("debug", FALSE, 0, "Internal"))>>,
      <<Field(SPAN_KIND_FIELD, Value("str", FALSE, 0, "bogus"))>>,
      <<Field(SPAN_KIND_FIELD, Value("debug", FALSE, 0, "\"server\""))>>,
      <<Field(SPAN_STATUS_CODE_FIELD, Value("debug", FALSE, 0, "Ok"))>>,
      <<Field(SPAN_STATUS_CODE_FIELD, Value("str", FALSE, 0, "ERROR"))>>,
      <<Field(SPAN_STATUS_CODE_FIELD, Value("str", FALSE, 0, "unset"))>>,
      <<Field(SPAN_STATUS_MESSAGE_FIELD, Value("str", FALSE, 0, "boom"))>>,
      <<Field(SPAN_STATUS_MESSAGE_FIELD, Value("debug", FALSE, 0, "Boom"))>>,
      <<Field(SPAN_NAME_FIELD, Value("str", FALSE, 0, "GET /")),
        Field(SPAN_KIND_FIELD, Value("str", FALSE, 0, "Server")),
        Field(SPAN_STATUS_CODE_FIELD, Value("str", FALSE, 0, "error"))>>,
      <<Field("k", Value("str", FALSE, 0, "boom")),
        Field(SPAN_KIND_FIELD, Value("str", FALSE, 0, "client")),
        Field("error", Value("error", FALSE, 0, "boom"))>>,
      <<Field(SPAN_STATUS_CODE_FIELD, Value("str", FALSE, 0, "ok")),
        Field(SPAN_STATUS_MESSAGE_FIELD, Value("str", FALSE, 0, "boom"))>>,
      <<Field(SPAN_STATUS_MESSAGE_FIELD, Value("str", FALSE, 0, "boom")),
        Field(SPAN_STATUS_CODE_FIELD, Value("str", FALSE, 0, "ok"))>>,
      <<Field(SPAN_NAME_FIELD, Value("i64", FALSE, 7, "")),
        Field(SPAN_KIND_FIELD, Value("bool", TRUE, 0, ""))>>,
      <<Field("otel.status_description", Value("str", FALSE, 0, "boom"))>>,
      <<Field(SPAN_STATUS_CODE_FIELD, Value("str", FALSE, 0, "error")),
        Field("otel.status_description", Value("str", FALSE, 0, "boom"))>>>>

\* One thread and one span with the fields under visit, fields recorded on
\* it later, and the visit of the fields one by one; the exception fields
\* of error values on or off.
InitSpanFields ==
    InitVisiting({1}, {FALSE},
                 {c \in SemConvConfigs : /\ c.error_records_to_exceptions
                                         /\ c.error_events_to_exceptions
                                         /\ c.error_events_to_status},
                 {NewAttributeVisit(SpanFieldInputs[i]) :
                      i \in 1 .. Len(SpanFieldInputs)})

FieldSpans(spans) ==
    \E t \in threads :
        \/ NextId <= spans /\ on_new_span(t, "root", 0, field_updates(visit.fields))
        \/ on_new_span_insert(t)

FieldRecords(calls) ==
    \E t \in threads, id \in SpanIds, i \in 1 .. Len(SpanFieldInputs) :
        Len(ops) < calls /\ on_record(t, id, field_updates(SpanFieldInputs[i]))

NextSpanFields ==
    \/ visit_attribute
    \/ FieldSpans(MaxSpans - 2)
    \/ FieldRecords(MaxOps + 1)

SpecSpanFields == InitSpanFields /\ [][NextSpanFields]_vars

\* One thread and two spans, one of them filtered or not, with the calls of
\* OpenTelemetrySpanExt on them before and after they are started.
NextSpanExt ==
    \/ FilteredSpans(MaxSpans - 2)
    \/ SpanCallbacks(MaxSpans - 1, MaxDepth - 1)
    \/ ParentCalls(MaxOps + 1)
    \/ SpanExtCalls(MaxOps + 1, MaxEvents)

SpecSpanExt == Init /\ [][NextSpanExt]_vars

\* The same with on_record among the calls.
NextReparent ==
    \/ NextSpanExt
    \/ RecordCallbacks(MaxOps + 1)

SpecReparent == Init /\ [][NextReparent]_vars

\* One thread and two spans, links added to them before and after they are
\* started, with a remote span context or with an invalid one.
LinkCalls(calls) ==
    \E t \in threads, id \in SpanIds, i \in 1 .. 2 :
        Len(ops) < calls
        /\ add_link(t, id, <<EmptyCx, [sid |-> RemoteSid, sampled |-> TRUE]>>[i])

NextLinks ==
    \/ FilteredSpans(MaxSpans - 2)
    \/ SpanCallbacks(MaxSpans - 1, MaxDepth - 1)
    \/ LinkCalls(MaxOps + 1)

SpecLinks == Init /\ [][NextLinks]_vars

SpecRouting == Init /\ [][NextRouting]_vars

\* One thread and one span, its status set by the program, by on_record
\* and by events of either level; the two error event settings on or off.
InitStatus ==
    InitWith({1}, {FALSE},
             {c \in SemConvConfigs : c.error_fields_to_exceptions
                                      /\ c.error_records_to_exceptions},
             {<<>>})

NextStatus ==
    \/ SpanCallbacks(MaxSpans - 2, MaxDepth - 1)
    \/ LevelEvents(MaxEvents)
    \/ RecordCallbacks(MaxOps)
    \/ SpanExtCalls(MaxOps, MaxEvents)

SpecStatus == InitStatus /\ [][NextStatus]_vars

\* The visit of one event, of every event of Events under every
\* SemConvConfig.
Visits == visit_field \/ visit_named

InitVisitor == InitWith({1}, {TRUE}, SemConvConfigs, Events)

NextVisitor == Visits

SpecVisitor == InitVisitor /\ [][NextVisitor]_vars


\* ------------------------------------------------------------------ claims
\* The spans the tracer has started from the builder of the tracing span id.
Owned(id) == {sid \in DOMAIN tracer : tracer[sid].owner = id}

\* C1: whatever callbacks two threads interleave on its spans, a span's
\* builder is handed to the tracer at most once; the resulting span is ended
\* only by on_close and then exactly once; and when on_close has returned the
\* span has been started exactly once and its OtelData is out of storage.
C1_StartedOnceEndedOnce ==
    \A id \in SpanIds :
        /\ Cardinality(Owned(id)) <= 1
        /\ \A sid \in Owned(id) :
              tracer[sid].ended = IF registry[id] = "closed" THEN 1 ELSE 0
        /\ registry[id] = "closed" =>
              Cardinality(Owned(id)) = 1 /\ ~extensions[id].present

\* A closed span that an event and a child had started before its close.
C1_Witness ==
    \E id \in SpanIds, sid \in DOMAIN tracer, child \in DOMAIN tracer :
        /\ registry[id] = "closed"
        /\ tracer[sid].owner = id
        /\ tracer[sid].ended = 1
        /\ tracer[sid].events # <<>>
        /\ tracer[child].parent.sid = sid

\* The step is a call of op that the log records.
Called(op) == Len(ops') = Len(ops) + 1 /\ ops'[Len(ops')].op = op

\* Thread t is in on_new_span, past parent_context, having taken the
\* context of a span the layer tracks.
Resolved(t) == pc[t].op = "on_new_span" /\ pc[t].from # 0

\* C2: when on_new_span has resolved a tracked parent, the parent is started
\* (exactly one span of the tracer is its own, its builder is gone) while the
\* child has no record yet, the started context is the one cached on the
\* parent's record, and the child's record is then stored with that context;
\* a span that has been started is never started again, so every later child
\* gets the same identity.
C2_ParentStartedBeforeChild ==
    /\ [](\A t \in threads :
            Resolved(t) =>
                /\ ~extensions[pc[t].id].present
                /\ extensions[pc[t].from].present
                /\ ~extensions[pc[t].from].builder.present
                /\ extensions[pc[t].from].parent_cx = pc[t].cx
                /\ Owned(pc[t].from) = {pc[t].cx.sid})
    /\ [][\A t \in threads :
            Resolved(t) /\ pc'[t] = Idle =>
                /\ extensions'[pc[t].id].present
                /\ extensions'[pc[t].id].parent_cx = pc[t].cx
                /\ tracer' = tracer]_vars
    /\ [][\A id \in SpanIds : Owned(id) # {} => Owned(id)' = Owned(id)]_vars

\* Two pending children of a span that the first child's creation started.
C2_Witness ==
    \E p \in SpanIds, c1 \in SpanIds, c2 \in SpanIds :
        /\ c1 # c2
        /\ ~activate_context
        /\ registry[p] = "open"
        /\ extensions[c1].builder.present /\ extensions[c2].builder.present
        /\ extensions[c1].parent_cx = extensions[c2].parent_cx
        /\ Owned(p) = {extensions[c1].parent_cx.sid}
        /\ \A sid \in Owned(p) : tracer[sid].events = <<>>

\* Thread t is in on_new_span for a span whose explicit parent the layer
\* does not see or has no record of.
ParentNotFound(t) ==
    /\ pc[t].op = "on_new_span"
    /\ pc[t].kind = "explicit"
    /\ ~(ctx_span(pc[t].parent) /\ extensions[pc[t].parent].present)

\* C3: a span whose explicit parent is filtered, closed or without a record
\* gets the empty parent context from no span, is stored with it like any
\* root, and the close of a pending span with the empty parent context
\* exports one root span, ended once.
C3_UnfoundParentIsRoot ==
    /\ [](\A t \in threads :
            ParentNotFound(t) => pc[t].cx = EmptyCx /\ pc[t].from = 0)
    /\ [][\A t \in threads :
            ParentNotFound(t) /\ pc'[t] = Idle =>
                /\ extensions'[pc[t].id].present
                /\ extensions'[pc[t].id].builder.present
                /\ extensions'[pc[t].id].parent_cx = EmptyCx
                /\ tracer' = tracer]_vars
    /\ [][\A id \in SpanIds :
            /\ registry[id] = "open" /\ registry'[id] = "closed"
            /\ extensions[id].builder.present
            /\ extensions[id].parent_cx = EmptyCx
            => \E sid \in DOMAIN tracer' :
                  /\ sid \notin DOMAIN tracer
                  /\ Owned(id)' = {sid}
                  /\ tracer'[sid].parent = EmptyCx
                  /\ tracer'[sid].sampled
                  /\ tracer'[sid].ended = 1]_vars

\* A span is being created inside an entered tracked span with an explicit
\* parent that is filtered, and has resolved to the empty context.
C3_Witness ==
    \E t \in threads :
        /\ ParentNotFound(t)
        /\ registry[pc[t].parent] = "filtered"
        /\ lookup_current(t) # 0
        /\ pc[t].cx = EmptyCx

\* The innermost span thread t has entered that the layer holds a record
\* of (0 if none).
RECURSIVE tracked_in(_)
tracked_in(stk) ==
    IF stk = <<>> THEN 0
    ELSE IF ctx_span(stk[Len(stk)]) /\ extensions[stk[Len(stk)]].present
         THEN stk[Len(stk)]
    ELSE tracked_in(SubSeq(stk, 1, Len(stk) - 1))

\* Thread t, in on_new_span, has taken the context of the started span id.
Inherits(t, id) ==
    /\ pc[t].cx = extensions[id].parent_cx
    /\ ~extensions[id].builder.present
    /\ Owned(id) = {pc[t].cx.sid}

\* C4 as the spec states it: a root span gets the empty context, a
\* contextual span the context of the nearest enclosing span the layer
\* tracks, and the ambient context only when there is no such span.
C4_NearestEnclosingSpan ==
    \A t \in threads :
        pc[t].op = "on_new_span" =>
            /\ pc[t].kind = "root" => pc[t].cx = EmptyCx
            /\ pc[t].kind = "contextual" =>
                  IF tracked_in(stack[t]) # 0
                  THEN Inherits(t, tracked_in(stack[t]))
                  ELSE pc[t].cx = current(t)

\* C4, amended: a root span gets the empty context.  Without
\* activate_context a contextual span gets the context of the innermost
\* entered span the layer sees if the layer holds a record of it, that span
\* being started by then, and the ambient context otherwise.  With
\* activate_context it gets the thread's current OpenTelemetry context: the
\* nearest enclosing tracked span's, or the context the program attached
\* since that span was entered, or the empty context when no tracked span is
\* entered and nothing is attached.
C4_ContextualParent ==
    \A t \in threads :
        pc[t].op = "on_new_span" =>
            LET cur == lookup_current(t)
                top == otel_stack[t][Len(otel_stack[t])]
            IN /\ pc[t].kind = "root" => pc[t].cx = EmptyCx
               /\ pc[t].kind = "contextual" /\ ~activate_context =>
                     IF cur # 0 /\ extensions[cur].present
                     THEN Inherits(t, cur)
                     ELSE pc[t].cx = current(t)
               /\ pc[t].kind = "contextual" /\ activate_context =>
                     IF otel_stack[t] = <<>>
                     THEN pc[t].cx = EmptyCx /\ tracked_in(stack[t]) = 0
                     ELSE IF top.id # 0
                          THEN top.id = tracked_in(stack[t]) /\ Inherits(t, top.id)
                          ELSE pc[t].cx = top.cx /\ top.cx \in RemoteCxs

\* With activate_context a contextual span is being created inside an
\* entered tracked span, after the program attached a remote context.
C4_Witness ==
    \E t \in threads :
        /\ activate_context
        /\ pc[t].op = "on_new_span"
        /\ pc[t].kind = "contextual"
        /\ tracked_in(stack[t]) # 0
        /\ pc[t].cx \in RemoteCxs

\* The stored parent context of a span changes in the step.
ParentCxChanges(id) ==
    /\ extensions[id].present /\ extensions'[id].present
    /\ extensions'[id].parent_cx # extensions[id].parent_cx

\* C5 as the spec states it: the stored parent context of a span changes
\* only in a set_parent call on it.
C5_OnlySetParent ==
    [][\A id \in SpanIds :
          ParentCxChanges(id) =>
              Called("set_parent") /\ ops'[Len(ops')].id = id]_vars

\* C5, amended: the stored parent context of a span changes only in a
\* set_parent call on it or in the step that starts the span, which puts the
\* span's own identity into it; on_record, on_follows_from, set_attribute,
\* set_status, add_event and sampled_context change no stored parent
\* context, and neither does on_exit.
C5_SetParentOrStart ==
    /\ [][\A id \in SpanIds :
            ParentCxChanges(id) =>
                \/ Called("set_parent") /\ ops'[Len(ops')].id = id
                \/ /\ extensions[id].builder.present
                   /\ ~extensions'[id].builder.present
                   /\ extensions'[id].parent_cx.sid \in Owned(id)'
                   /\ extensions'[id].parent_cx.sid \notin DOMAIN tracer
                   /\ tracer'[extensions'[id].parent_cx.sid].parent
                         = extensions[id].parent_cx]_vars
    /\ [][(Len(ops') > Len(ops) /\ ~Called("set_parent"))
            \/ (\E t \in threads : Len(stack'[t]) < Len(stack[t]))
            => \A id \in SpanIds : ~ParentCxChanges(id)]_vars

\* A span re-parented by set_parent while pending, and started afterwards
\* under the remote parent.
C5_Witness ==
    \E id \in SpanIds, sid \in DOMAIN tracer :
        /\ ops # <<>>
        /\ ops[Len(ops)].op = "set_parent" /\ ops[Len(ops)].id = id
        /\ extensions[id].present
        /\ extensions[id].parent_cx.sid = sid
        /\ tracer[sid].owner = id
        /\ tracer[sid].parent \in RemoteCxs

\* C6: set_parent(cx) on a span with a pending builder stores cx as parent
\* context and clears the builder's sampling result, keeping the builder; so
\* every span the tracer starts is sampled as the sampler decides for the
\* parent context it is started with, whatever decision was cached before.
C6_SetParentResetsSampling ==
    /\ [][\A id \in SpanIds :
            /\ Called("set_parent") /\ ops'[Len(ops')].id = id
            /\ extensions[id].present /\ extensions[id].builder.present
            => /\ extensions'[id].parent_cx = ops'[Len(ops')].cx
               /\ extensions'[id].builder.present
               /\ extensions'[id].builder.sampling_result = None]_vars
    /\ [](\A sid \in DOMAIN tracer :
            tracer[sid].sampled = should_sample(tracer[sid].parent))

\* A span whose sampling was forced while it was a root, then re-parented
\* under an unsampled remote context and started: it is not sampled.
C6_Witness ==
    \E id \in SpanIds, sid \in DOMAIN tracer :
        /\ Len(ops) = 2
        /\ ops[1].op = "sampled_context" /\ ops[1].id = id
        /\ ops[2].op = "set_parent" /\ ops[2].id = id
        /\ ops[2].cx = [sid |-> RemoteSid, sampled |-> FALSE]
        /\ tracer[sid].owner = id
        /\ tracer[sid].parent = ops[2].cx
        /\ ~tracer[sid].sampled

\* C7 as the spec states it: an on_record for a started span puts the name,
\* the span kind, the status and the attributes it carries on the live span.
C7_RecordReachesLiveSpan ==
    [][\A id \in SpanIds :
          /\ Called("on_record") /\ ops'[Len(ops')].id = id
          /\ extensions[id].present /\ ~extensions[id].builder.present
          /\ extensions[id].parent_cx.sid \in Owned(id)
          => LET sid == extensions[id].parent_cx.sid
                 updates == ops'[Len(ops')].updates
             IN /\ updates.name # None => tracer'[sid].name = updates.name
                /\ updates.span_kind # None =>
                      tracer'[sid].span_kind = updates.span_kind
                /\ updates.status # None => tracer'[sid].status = updates.status
                /\ tracer'[sid].attributes
                      = tracer[sid].attributes \o updates.attributes]_vars

\* A started span that an on_record with a name and a span kind was
\* delivered for: it still has the name and the kind it was started with.
C7_Witness ==
    \E id \in SpanIds, sid \in DOMAIN tracer :
        /\ ops # <<>>
        /\ ops[Len(ops)].op = "on_record" /\ ops[Len(ops)].id = id
        /\ ops[Len(ops)].updates.name = "renamed"
        /\ Owned(id) = {sid}
        /\ tracer[sid].name = "span"
        /\ tracer[sid].span_kind = None

\* Thread t is in on_event for a span that has a record, about to record
\* the event.
Recording(t) == pc[t].op = "on_event" /\ extensions[pc[t].id].present

\* C8 as the spec states it: on_event appends the event to the event list
\* of a pending builder and leaves the span unstarted, and sends it to the
\* span only if the span is started.
C8_PendingEventBuffered ==
    [][\A t \in threads :
          Recording(t) /\ pc'[t] = Idle =>
              LET id == pc[t].id
                  sid == extensions[id].parent_cx.sid
              IN IF extensions[id].builder.present
                 THEN /\ extensions'[id].builder.present
                      /\ extensions'[id].builder.events
                            = Append(extensions[id].builder.events, pc[t].ev)
                      /\ DOMAIN tracer' = DOMAIN tracer
                 ELSE tracer'[sid].events = Append(tracer[sid].events, pc[t].ev)]_vars

\* C8, amended: on_event always leaves the span started.  For a pending
\* builder it starts the span, which takes the builder's events, and sends
\* the event to it after them; for a started span it sends the event to the
\* live span.  OpenTelemetrySpanExt::add_event on a pending builder appends
\* the event to the builder's event list and leaves the span unstarted.
C8_EventStartsSpan ==
    /\ [][\A t \in threads, id \in SpanIds :
            Recording(t) /\ pc[t].id = id /\ pc'[t] = Idle =>
                LET sid == extensions'[id].parent_cx.sid
                IN /\ ~extensions'[id].builder.present
                   /\ Owned(id)' = {sid}
                   /\ IF extensions[id].builder.present
                      THEN /\ sid \notin DOMAIN tracer
                           /\ tracer'[sid].events
                                 = Append(extensions[id].builder.events, pc[t].ev)
                      ELSE /\ DOMAIN tracer' = DOMAIN tracer
                           /\ tracer'[sid].events
                                 = Append(tracer[sid].events, pc[t].ev)]_vars
    /\ [][\A id \in SpanIds :
            /\ Called("add_event") /\ ops'[Len(ops')].id = id
            /\ extensions[id].present /\ extensions[id].builder.present
            => /\ extensions'[id].builder.present
               /\ Len(extensions'[id].builder.events)
                     = Len(extensions[id].builder.events) + 1
               /\ extensions'[id].builder.events[Len(extensions'[id].builder.events)].n
                     = next_event'
               /\ tracer' = tracer]_vars

\* An open span that add_event found pending and an on_event then started:
\* it carries the buffered event and the on_event's after it, and nothing
\* else has started it.
C8_Witness ==
    \E id \in SpanIds, sid \in DOMAIN tracer :
        /\ ~activate_context
        /\ registry[id] = "open"
        /\ Owned(id) = {sid}
        /\ Len(tracer[sid].events) = 2
        /\ tracer[sid].events[1].kind = "add_event"
        /\ tracer[sid].events[2].kind \in {"explicit", "contextual"}
        /\ \A c \in DOMAIN tracer : tracer[c].parent.sid # sid
        /\ \A c \in SpanIds : extensions[c].present => extensions[c].parent_cx.sid # sid \/ c = id

\* Where event n is: with the thread recording it, among the dropped events,
\* in the event list of a pending builder or of a span of the tracer.
Places(n) ==
    {<<"on_event", t, 0>> : t \in {u \in threads : pc[u].op = "on_event" /\ pc[u].ev.n = n}}
    \cup {<<"dropped", 0, 0>> : e \in {d \in dropped : d.n = n}}
    \cup UNION {{<<"builder", id, i>> :
                    i \in {k \in DOMAIN extensions[id].builder.events :
                              extensions[id].builder.events[k].n = n}} :
                id \in SpanIds}
    \cup UNION {{<<"span", sid, i>> :
                    i \in {k \in DOMAIN tracer[sid].events :
                              tracer[sid].events[k].n = n}} :
                sid \in DOMAIN tracer}

\* The span an event of on_event belongs on, given where it was emitted.
Target(e) ==
    IF e.kind = "explicit" THEN e.parent
    ELSE IF e.kind = "contextual" THEN e.current
    ELSE 0

\* C9: every event emitted is in exactly one place; an event of on_event on
\* a span is on the span of its explicit parent, or, for a contextual event,
\* on the span that was current; when on_event takes an event, the event is
\* dropped if it is a root event, a contextual event with no current span or
\* an event whose explicit parent the layer does not see, and is bound for
\* its span otherwise; it is dropped then only if the span has no record;
\* and the events of a span are in the order of their emission.
C9_EventOnOneSpan ==
    /\ [](\A n \in 1 .. next_event : Cardinality(Places(n)) = 1)
    /\ [](\A sid \in DOMAIN tracer : \A i \in DOMAIN tracer[sid].events :
            LET e == tracer[sid].events[i]
            IN /\ e.kind \in {"explicit", "contextual", "add_event"}
               /\ e.kind # "add_event" => Target(e) = tracer[sid].owner
               /\ \A j \in DOMAIN tracer[sid].events :
                     i < j => e.n < tracer[sid].events[j].n)
    /\ [][\A t \in threads :
            pc[t] = Idle /\ next_event' = next_event + 1 /\ ~Called("add_event") =>
                LET cur == lookup_current(t)
                IN \/ /\ pc'[t].op = "on_event"
                      /\ pc'[t].ev.n = next_event'
                      /\ \/ /\ pc'[t].ev.kind = "explicit"
                            /\ ctx_span(pc'[t].ev.parent)
                            /\ pc'[t].id = pc'[t].ev.parent
                         \/ /\ pc'[t].ev.kind = "contextual"
                            /\ cur # 0
                            /\ pc'[t].ev.current = cur
                            /\ pc'[t].id = cur
                   \/ /\ pc'[t] = Idle
                      /\ \E e \in dropped' \ dropped :
                            /\ e.n = next_event'
                            /\ \/ e.kind = "root"
                               \/ e.kind = "contextual" /\ cur = 0
                               \/ e.kind = "explicit" /\ ~ctx_span(e.parent)]_vars
    /\ [][\A t \in threads :
            pc[t].op = "on_event" /\ pc'[t] = Idle =>
                (pc[t].ev \in dropped') = ~extensions[pc[t].id].present]_vars

\* An exported span with two events: the first contextual, emitted inside
\* the span, the second naming the span as its explicit parent.
C9_Witness ==
    \E sid \in DOMAIN tracer :
        /\ tracer[sid].ended = 1
        /\ Len(tracer[sid].events) = 2
        /\ tracer[sid].events[1].kind = "contextual"
        /\ tracer[sid].events[2].kind = "explicit"

\* C10: with two threads emitting events, every event emitted is in exactly
\* one place; an event is dropped when it is emitted only if it has no open
\* span to go to; an event bound for a span finds the span's record, and
\* recording it appends it to the one span the tracer has for that span,
\* started by this event or before, after the events already there; no span
\* of the tracer ever loses an event; and a closed span has exactly one span
\* of the tracer, ended once.
C10_NoEventLost ==
    /\ [](\A n \in 1 .. next_event : Cardinality(Places(n)) = 1)
    /\ [](\A t \in threads :
            pc[t].op = "on_event" =>
                registry[pc[t].id] = "open" /\ extensions[pc[t].id].present)
    /\ [](\A id \in SpanIds :
            /\ Cardinality(Owned(id)) <= 1
            /\ registry[id] = "closed" =>
                  \E sid \in DOMAIN tracer :
                      Owned(id) = {sid} /\ tracer[sid].ended = 1)
    /\ [][next_event' = next_event + 1 =>
            \E t \in threads :
                /\ pc[t] = Idle
                /\ \/ /\ pc'[t].op = "on_event"
                      /\ pc'[t].ev.n = next_event'
                      /\ dropped' = dropped
                      /\ \/ /\ pc'[t].ev.kind = "explicit"
                            /\ ctx_span(pc'[t].ev.parent)
                            /\ pc'[t].id = pc'[t].ev.parent
                         \/ /\ pc'[t].ev.kind = "contextual"
                            /\ lookup_current(t) # 0
                            /\ pc'[t].id = lookup_current(t)
                   \/ /\ pc'[t] = Idle
                      /\ \E e \in dropped' \ dropped :
                            /\ e.n = next_event' /\ e.thread = t
                            /\ \/ e.kind = "root"
                               \/ e.kind = "contextual" /\ lookup_current(t) = 0
                               \/ e.kind = "explicit" /\ ~ctx_span(e.parent)]_vars
    /\ [][\A t \in threads, id \in SpanIds :
            Recording(t) /\ pc[t].id = id /\ pc'[t] = Idle =>
                /\ dropped' = dropped
                /\ \E sid \in DOMAIN tracer' :
                      /\ Owned(id)' = {sid}
                      /\ tracer'[sid].events =
                            Append(IF sid \in DOMAIN tracer
                                   THEN tracer[sid].events
                                   ELSE extensions[id].builder.events,
                                   pc[t].ev)]_vars
    /\ [][\A sid \in DOMAIN tracer :
            /\ sid \in DOMAIN tracer'
            /\ Len(tracer'[sid].events) >= Len(tracer[sid].events)
            /\ SubSeq(tracer'[sid].events, 1, Len(tracer[sid].events))
                  = tracer[sid].events]_vars

\* A closed span exported with the events of two threads that raced: the
\* event emitted second was recorded, and started the span, first.
C10_Witness ==
    \E id \in SpanIds, sid \in DOMAIN tracer :
        /\ registry[id] = "closed"
        /\ Owned(id) = {sid}
        /\ tracer[sid].ended = 1
        /\ Len(tracer[sid].events) = 2
        /\ tracer[sid].events[1].n = 2
        /\ tracer[sid].events[2].n = 1
        /\ tracer[sid].events[1].thread # tracer[sid].events[2].thread


\* The entry depth of a span: the enters of all threads that no exit has
\* matched yet.
Depth(id) ==
    Cardinality({p \in threads \X (1 .. MaxDepth + 1) :
                    p[2] <= Len(stack[p[1]]) /\ stack[p[1]][p[2]] = id})

\* C11: for a span with timing tracked, time is added to idle only by an
\* enter that takes the entry depth from 0 to 1 and to busy only by an exit
\* that takes it back to 0; a nested or concurrent enter and an exit that
\* leaves the depth above 0 add nothing.
C11_DepthCounted ==
    [][\A id \in SpanIds :
          timings[id].present /\ timings'[id].present =>
             /\ timings'[id].idle # timings[id].idle =>
                    Depth(id) = 0 /\ Depth(id)' = 1
             /\ timings'[id].busy # timings[id].busy =>
                    Depth(id) = 1 /\ Depth(id)' = 0]_vars

\* C11: a span with timing tracked that is entered twice at once, the time
\* up to the second enter counted as idle.
C11_Witness ==
    \E id \in SpanIds :
        /\ timings[id].present
        /\ Depth(id) = 2
        /\ timings[id].idle > 0
        /\ timings[id].last = now

\* The spans of the tracer that have ended with the timing attributes.
Timed == {sid \in DOMAIN tracer : tracer[sid].ended > 0 /\ tracer[sid].busy_ns # <<>>}

\* The lifetime of an ended span of the tracer, from its start time to its
\* end time.
Lifetime(sid) == tracer[sid].end_time[1] - tracer[sid].start_time[1]

\* C12: the busy_ns and idle_ns reported at close sum to the span's
\* lifetime, from its creation to its end, up to one clock reading,
\* whatever the enters and exits were (none, one, repeated, nested).
C12_SumIsLifetime ==
    \A sid \in Timed :
        LET sum == tracer[sid].busy_ns[1] + tracer[sid].idle_ns[1]
        IN /\ sum - Lifetime(sid) <= 1
           /\ Lifetime(sid) - sum <= 1

\* C12: a span closed without ever being entered, two readings after it
\* was created, reports no busy and no idle time.
C12_Witness ==
    \E sid \in Timed :
        /\ tracer[sid].busy_ns = <<0>>
        /\ tracer[sid].idle_ns = <<0>>
        /\ Lifetime(sid) >= 2

\* C13: a span of the tracer carries busy_ns and idle_ns exactly if it has
\* been ended (by on_close) and inactivity tracking is enabled: they are set
\* before the end, or the ended span would not have taken them; a closed
\* span has no Timings left; with tracking disabled no span ever has
\* Timings.
C13_TimingsAtClose ==
    /\ \A sid \in DOMAIN tracer :
          /\ tracer[sid].busy_ns # <<>> <=> tracer[sid].ended > 0 /\ tracked_inactivity
          /\ tracer[sid].idle_ns # <<>> <=> tracer[sid].ended > 0 /\ tracked_inactivity
    /\ \A id \in SpanIds :
          /\ registry[id] \in {"closed", "filtered_closed"} => timings[id] = NoTimings
          /\ ~tracked_inactivity => timings[id] = NoTimings
          /\ registry[id] = "open" /\ Created(id) /\ tracked_inactivity =>
                timings[id].present

\* C13: with tracking enabled, a span that was busy for a while has been
\* closed: its span has ended with both attributes and its Timings are
\* gone.
C13_Witness ==
    /\ tracked_inactivity
    /\ \E sid \in DOMAIN tracer :
          /\ tracer[sid].ended = 1
          /\ tracer[sid].busy_ns # <<>> /\ tracer[sid].busy_ns[1] > 0
          /\ tracer[sid].idle_ns # <<>>
          /\ registry[tracer[sid].owner] = "closed"
          /\ ~timings[tracer[sid].owner].present

\* What the claims call the stringified value: to_string of a bool, a
\* number or a string, the Debug rendering of a Debug value.
Stringified(value) ==
    IF value.type = "debug" THEN debug_format(value) ELSE to_string(value)

\* The event under visit has a field of that name, of one of these types.
HasField(name, types) ==
    \E i \in 1 .. Len(visit.fields) :
        visit.fields[i].name = name /\ visit.fields[i].value.type \in types

FieldValue(name) ==
    visit.fields[CHOOSE i \in 1 .. Len(visit.fields) : visit.fields[i].name = name].value

\* The fields of the event under visit that are visited after that one.
After(name) ==
    SubSeq(visit.fields,
           (CHOOSE i \in 1 .. Len(visit.fields) : visit.fields[i].name = name) + 1,
           Len(visit.fields))

MessageTypes == {"bool", "i64", "f64", "str", "debug"}

\* C14: the name of the trace event of an event with a message field, of
\* any of the five types and in any position, is the stringified message.
C14_NameIsMessage ==
    visit.named /\ HasField("message", MessageTypes) =>
        visit.v.event_builder.name = Stringified(FieldValue("message"))

\* C14: the name of the trace event of an event with a message field, of
\* any of the five types and in any position, is the stringified message
\* if that is not empty; an event with an empty message is named as an
\* event that has only the fields visited after the message is.
C14_NameIsNonEmptyMessage ==
    visit.named /\ HasField("message", MessageTypes) =>
        IF Stringified(FieldValue("message")) # ""
        THEN visit.v.event_builder.name = Stringified(FieldValue("message"))
        ELSE visit.v.event_builder.name =
                event_named(event_record(NewVisitor, After("message"))
                           ).event_builder.name

\* C14: a float message, visited last after an error field that had named
\* the event exception, has given the event its name.
C14_Witness ==
    /\ visit.named
    /\ Len(visit.fields) = 3
    /\ visit.fields[1].name = "error" /\ visit.fields[1].value.type = "str"
    /\ visit.fields[3].name = "message" /\ visit.fields[3].value.type = "f64"
    /\ sem_conv_config.error_events_to_exceptions
    /\ visit.v.event_builder.name = "1.5"

AllTypes == MessageTypes \cup {"error"}

\* The visited event has that attribute.
HasAttribute(key, value) ==
    \E i \in 1 .. Len(visit.v.event_builder.attributes) :
        visit.v.event_builder.attributes[i] = KeyValue(key, value)

HasKey(key) ==
    \E i \in 1 .. Len(visit.v.event_builder.attributes) :
        visit.v.event_builder.attributes[i].key = key

\* The event under visit is unnamed: it has no message field.
Unnamed == ~HasField("message", AllTypes)

\* The text of an error value: the string, or what its Debug or Display
\* implementation writes.
ErrorText(value) == IF value.type \in {"str", "debug", "error"} THEN value.s
                    ELSE to_string(value)

\* What the two settings make of the visited event, text being the error
\* text as the layer renders it.
Mapped(text) ==
    /\ IF sem_conv_config.error_events_to_exceptions
       THEN /\ visit.v.event_builder.name = "exception"
            /\ HasAttribute("exception.message", text)
            /\ ~HasKey("error")
       ELSE /\ visit.v.event_builder.name = MetadataName
            /\ HasAttribute("error", text)
            /\ ~HasField("k", {"error"}) => ~HasKey("exception.message")
    /\ visit.v.span_builder_updates.status =
          IF sem_conv_config.error_events_to_status THEN Status_error(text) ELSE None

\* C15: an unnamed event with an error field is renamed to exception and
\* gets exception.message exactly if exception mapping is enabled (else it
\* keeps a plain error attribute), and gives the span's status the error
\* text as description exactly if status propagation is enabled.
C15_ErrorFieldMapped ==
    visit.named /\ Unnamed /\ HasField("error", AllTypes) =>
        Mapped(ErrorText(FieldValue("error")))

\* What the visitor does do with the error field of an unnamed event: the
\* two settings act as C15 says on an error field recorded as a string or as
\* a Debug or Display value, the text being the Debug rendering of the value
\* (a string in quotes); an error field of another type is a plain
\* attribute, and neither renames the event nor gives the span a status,
\* whatever the settings.
StringErrorFieldMapped ==
    visit.named /\ Unnamed =>
        /\ HasField("error", {"str", "debug"}) =>
              Mapped(debug_format(FieldValue("error")))
        /\ HasField("error", AllTypes \ {"str", "debug"}) =>
              /\ visit.v.event_builder.name = MetadataName
              /\ HasAttribute("error", ErrorText(FieldValue("error")))
              /\ visit.v.span_builder_updates.status = None

\* C15: a string error of an unnamed event with exception mapping disabled
\* and status propagation enabled: the status has the quoted text and the
\* event keeps its metadata name.
C15_Witness ==
    /\ visit.named /\ Unnamed
    /\ HasField("error", {"str"})
    /\ FieldValue("error").s = "boom"
    /\ ~sem_conv_config.error_events_to_exceptions
    /\ sem_conv_config.error_events_to_status
    /\ visit.v.span_builder_updates.status = "Error:\"boom\""
    /\ visit.v.event_builder.name = MetadataName

\* C16: an event that carries a message field is never given an
\* exception.message attribute and never sets the span status from its
\* error field, whatever the order of the two fields.  (Events with a dyn
\* Error field, which record_error maps by itself, are left aside.)
C16_NamedEventNotMapped ==
    visit.named /\ HasField("message", MessageTypes)
                /\ ~HasField("error", {"error"}) /\ ~HasField("k", {"error"}) =>
        /\ ~HasKey("exception.message")
        /\ visit.v.span_builder_updates.status = None

\* C16: an event whose error field was visited before its message field
\* has the message as its name, an exception.message attribute and a
\* status for the span.
C16_Witness ==
    /\ visit.named
    /\ Len(visit.fields) = 2
    /\ visit.fields[1].name = "error" /\ visit.fields[1].value.type = "debug"
    /\ visit.fields[2].name = "message" /\ visit.fields[2].value.type = "str"
    /\ visit.v.event_builder.name = "boom"
    /\ HasAttribute("exception.message", "boom")
    /\ visit.v.span_builder_updates.status = "Error:boom"

\* The status of a tracing span before a step: that of its pending
\* builder, or that of the span its context carries.
StatusOf(id) ==
    IF extensions[id].builder.present THEN extensions[id].builder.status
    ELSE IF extensions[id].parent_cx.sid \in DOMAIN tracer
    THEN tracer[extensions[id].parent_cx.sid].status
    ELSE "Unset"

\* C17: an ERROR-level event whose fields give the span no status sets the
\* span's status to Error with an empty description only if no status has
\* been set on the span before; a status set before is not overwritten.
C17_LevelKeepsExplicitStatus ==
    [][\A t \in threads, id \in SpanIds :
          /\ Recording(t) /\ pc[t].id = id /\ pc'[t] = Idle
          /\ pc[t].ev.level = "ERROR"
          /\ pc[t].updates.status = None
          => LET post == tracer'[extensions'[id].parent_cx.sid].status
             IN post = IF StatusOf(id) = "Unset" THEN "Error:" ELSE StatusOf(id)]_vars

\* C17: a span whose status the program had set to Ok has the status Error
\* with an empty description after an ERROR-level event without fields.
C17_Witness ==
    \E sid \in DOMAIN tracer :
        /\ tracer[sid].status = "Error:"
        /\ \E i \in 1 .. Len(ops) :
              /\ ops[i].op = "set_status" /\ ops[i].status = "Ok"
              /\ ops[i].id = tracer[sid].owner
        /\ \E i \in 1 .. Len(tracer[sid].events) :
              /\ tracer[sid].events[i].level = "ERROR"
              /\ tracer[sid].events[i].fields = <<>>

\* The fields of that name among fields.
Named(fields, name) == {i \in 1 .. Len(fields) : fields[i].name = name}

\* C18: after an ERROR-level unnamed event with an error field the span's
\* status is Error with the error text as description if status
\* propagation is enabled (the level's status comes first and does not
\* replace it), and Error with an empty description if it is disabled.
C18_ErrorTextAfterLevel ==
    [][\A t \in threads, id \in SpanIds :
          /\ Recording(t) /\ pc[t].id = id /\ pc'[t] = Idle
          /\ pc[t].ev.level = "ERROR"
          /\ Named(pc[t].ev.fields, "message") = {}
          /\ Named(pc[t].ev.fields, "error") # {}
          => LET post == tracer'[extensions'[id].parent_cx.sid].status
                 i == CHOOSE i \in Named(pc[t].ev.fields, "error") : TRUE
             IN post = IF sem_conv_config.error_events_to_status
                       THEN Status_error(ErrorText(pc[t].ev.fields[i].value))
                       ELSE "Error:"]_vars

\* C18: with status propagation enabled, a span has the status Error with
\* the quoted text after an ERROR-level event with a string error field.
C18_Witness ==
    /\ sem_conv_config.error_events_to_status
    /\ \E sid \in DOMAIN tracer :
          /\ tracer[sid].status = "Error:\"boom\""
          /\ \E i \in 1 .. Len(tracer[sid].events) :
                /\ tracer[sid].events[i].level = "ERROR"
                /\ tracer[sid].events[i].fields =
                      <<[name |-> "error", value |-> Value("str", FALSE, 0, "boom")]>>

\* C19: on_follows_from for a span with a record whose target the layer
\* does not see (filtered out, or closed) completes without failing and
\* changes nothing: no link, the record of the following span as it was;
\* and every span that is closed has been exported once.
C19_MissingTargetIgnored ==
    /\ [][\A t \in threads, id \in SpanIds, follows \in SpanIds :
            on_follows_from(t, id, follows) /\ ~ctx_span(follows)
                                            /\ extensions[id].present
            => /\ failed' = failed
               /\ pc' = pc
               /\ extensions' = extensions
               /\ tracer' = tracer
               /\ registry' = registry]_vars
    /\ [](\A id \in SpanIds :
            registry[id] = "closed" =>
               /\ Cardinality(Owned(id)) = 1
               /\ \A sid \in Owned(id) : tracer[sid].ended = 1)

\* C19: a span has followed a span that was closed or filtered out at the
\* time, nothing has failed, and both are closed now, the tracked ones
\* exported.
C19_Witness ==
    /\ ~failed
    /\ \A state \in {"closed", "filtered"} :
          \E i \in 1 .. Len(ops) :
             /\ ops[i].op = "on_follows_from"
             /\ ~ops[i].found
             /\ registry[ops[i].follows] = state
             /\ registry[ops[i].id] = "closed"
             /\ \E sid \in Owned(ops[i].id) : tracer[sid].ended = 1

\* C20: a callback that takes the extensions of a span while it holds those
\* of another takes those of an ancestor; and on_new_span does not hold the
\* extensions of the new span when parent_context takes those of the parent.
C20_LocksChildToParent ==
    \A r \in nested : r.outward /\ r.op # "on_new_span"

\* C20: on_new_span has taken the extensions of the parent under those of
\* the new span, and on_follows_from those of a span that is no ancestor,
\* and of the span itself, under those of the span.
C20_Witness ==
    /\ \E r \in nested : r.op = "on_new_span" /\ r.held # r.taken
    /\ \E r \in nested : r.op = "on_follows_from" /\ ~r.outward
                                                  /\ r.held # r.taken
    /\ \E r \in nested : r.op = "on_follows_from" /\ r.held = r.taken
    /\ \E t \in threads : pc[t].op = "blocked"

\* The thread waits in on_follows_from for extensions that a thread holds.
Waits(t) ==
    /\ pc[t].op = "on_follows_from"
    /\ ctx_span(pc[t].parent)
    /\ ~Free(pc[t].parent)

\* Threads that wait for extensions held by one another.
Deadlock(waiting) ==
    /\ waiting # {}
    /\ \A t \in waiting : Waits(t) /\ \E u \in waiting : Holds(u, pc[t].parent)

\* C21: no threads are ever left waiting for extensions that they hold
\* themselves or one for another, whatever callbacks they run at once.
C21_NoDeadlock == \A waiting \in SUBSET threads : ~Deadlock(waiting)

\* C21: two threads in on_follows_from, each holding the extensions of the
\* span the other follows.
C21_Witness ==
    \E t \in threads, u \in threads :
        /\ t # u
        /\ Deadlock({t, u})
        /\ Holds(t, pc[u].parent) /\ Holds(u, pc[t].parent)

KindOf(type) ==
    CASE type \in {"CounterU64", "CounterF64"} -> "counter"
      [] type \in {"UpDownCounterI64", "UpDownCounterF64"} -> "up_down_counter"
      [] type \in {"HistogramU64", "HistogramF64"} -> "histogram"
      [] OTHER -> "gauge"

\* The rows of the routing table: prefix, value types, instrument kind.
RoutingTable ==
    {[prefix |-> "monotonic_counter.", types |-> {"u64", "i64"}, kind |-> "counter"],
     [prefix |-> "counter.", types |-> {"u64", "i64", "f64"}, kind |-> "up_down_counter"],
     [prefix |-> "histogram.", types |-> {"u64", "f64"}, kind |-> "histogram"],
     [prefix |-> "gauge.", types |-> {"u64", "i64", "f64"}, kind |-> "gauge"]}

\* The rows that the field falls under: its name starts with the prefix and
\* its value has one of the types (a u64 under counter. within the signed
\* range).
Rows(field) ==
    {row \in RoutingTable :
        /\ starts_with(field.name, row.prefix)
        /\ field.value.type \in row.types
        /\ (row.prefix = "counter." /\ field.value.type = "u64")
              => field.value.n <= I64_MAX}

\* C23: an event of one field that falls under a row of the routing table
\* makes on_event take up exactly one metric, of the kind of the row and
\* named by the field name without the prefix; no field falls under two
\* rows.
C23_RoutedByTable ==
    [][\A t \in threads, i \in 1 .. Len(MetricNames), j \in 1 .. Len(MetricValues) :
          LET field == Field(MetricNames[i], MetricValues[j])
              name == MetricNames[i]
          IN metrics_dispatch(t, TRUE, <<field>>) /\ Rows(field) # {}
             => /\ Cardinality(Rows(field)) = 1
                /\ Len(mpc'[t].visited_metrics) = 1
                /\ \A row \in Rows(field) :
                      /\ KindOf(mpc'[t].visited_metrics[1].instrument.type) = row.kind
                      /\ row.prefix \o mpc'[t].visited_metrics[1].name = name]_vars

\* C23: a gauge named counter.x and an up-down counter named gauge.x have
\* been built and updated once.
C23_Witness ==
    /\ \E i \in 1 .. Len(meter), j \in 1 .. Len(meter) :
          /\ KindOf(meter[i].type) = "gauge" /\ meter[i].name = "counter.x"
          /\ KindOf(meter[j].type) = "up_down_counter" /\ meter[j].name = "gauge.x"
          /\ Len(meter[i].points) = 1 /\ Len(meter[j].points) = 1
    /\ \A t \in threads : mpc[t].phase = "idle"

\* The name starts with one of the prefixes.
Prefixed(name) ==
    \E prefix \in {"monotonic_counter.", "counter.", "histogram.", "gauge."} :
        starts_with(name, prefix)

\* The places of the fields of an event whose names start with a prefix.
PrefixedFields(fields) == {i \in 1 .. Len(fields) : Prefixed(fields[i].name)}

\* C24: of an event that on_event gets, every field under a prefix gives a
\* metric or a diagnostic, whatever the type of its value, and none is
\* among the attributes.
C24_PrefixedIsMetric ==
    [][\A t \in threads, n \in 1 .. Len(MetricInputs) :
          metrics_dispatch(t, TRUE, MetricInputs[n])
          => /\ Len(mpc'[t].visited_metrics) + (stderr' - stderr)
                   = Cardinality(PrefixedFields(MetricInputs[n]))
             /\ \A i \in 1 .. Len(mpc'[t].attributes) :
                   ~Prefixed(mpc'[t].attributes[i].key)]_vars

\* C24: a gauge has received a measurement with the attribute counter.y,
\* and one with the attribute histogram.h.
C24_Witness ==
    \E k \in 1 .. Len(meter) :
        /\ KindOf(meter[k].type) = "gauge"
        /\ \E p \in 1 .. Len(meter[k].points) :
              /\ Len(meter[k].points[p].attributes) = 1
              /\ meter[k].points[p].attributes[1].key = "counter.y"
              /\ meter[k].points[p].attributes[1].value.type = "str"
        /\ \E p \in 1 .. Len(meter[k].points) :
              /\ Len(meter[k].points[p].attributes) = 1
              /\ meter[k].points[p].attributes[1].key = "histogram.h"
              /\ meter[k].points[p].attributes[1].value.type = "i64"

\* The field is a u64 above i64::MAX under counter.
Overflows(field) ==
    /\ starts_with(field.name, "counter.")
    /\ field.value.type = "u64"
    /\ field.value.n > I64_MAX

\* The fields of an event but those that overflow, in their order.
RECURSIVE WithoutOverflow(_)
WithoutOverflow(fields) ==
    IF fields = <<>> THEN <<>>
    ELSE IF Overflows(Head(fields)) THEN WithoutOverflow(Tail(fields))
    ELSE <<Head(fields)>> \o WithoutOverflow(Tail(fields))

\* C25: on_event for an event with u64 fields above i64::MAX under counter.
\* prints one diagnostic for each and otherwise does what it does for the
\* event without them: the same metrics with the same attributes; a u64 up
\* to i64::MAX under counter. is taken up with its value.  No instrument
\* ever receives a value that overflowed.
C25_OverflowDropped ==
    /\ [][\A t \in threads, n \in 1 .. Len(MetricInputs) :
            LET fields == MetricInputs[n]
                others == metric_event_record(NewMetricVisitor, WithoutOverflow(fields))
            IN metrics_dispatch(t, TRUE, fields)
               => /\ stderr' - stderr = Len(fields) - Len(WithoutOverflow(fields))
                  /\ mpc'[t] = Updating(others.visited_metrics, others.attributes)
                  /\ \A i \in 1 .. Len(fields) :
                        (/\ starts_with(fields[i].name, "counter.")
                         /\ fields[i].value.type = "u64"
                         /\ fields[i].value.n <= I64_MAX)
                        => \E k \in 1 .. Len(mpc'[t].visited_metrics) :
                              /\ "counter." \o mpc'[t].visited_metrics[k].name
                                    = fields[i].name
                              /\ mpc'[t].visited_metrics[k].instrument
                                    = InstrumentType("UpDownCounterI64",
                                                     fields[i].value.n)]_vars
    /\ [](\A k \in 1 .. Len(meter) :
            meter[k].type = "UpDownCounterI64"
            => \A p \in 1 .. Len(meter[k].points) :
                  meter[k].points[p].value \in 0 .. I64_MAX)

\* C25: after an event with counter.y above i64::MAX and one with counter.y
\* at i64::MAX, one diagnostic is printed, the up-down counter y has the one
\* value i64::MAX, and the counter x of the first event has its value with
\* the attribute k.
C25_Witness ==
    /\ Len(offered) = 2
    /\ \E i \in 1 .. 2 : \E j \in 1 .. Len(offered[i].fields) :
          Overflows(offered[i].fields[j])
    /\ \A t \in threads : mpc[t].phase = "idle"
    /\ stderr = 1
    /\ \E k \in 1 .. Len(meter) :
          /\ meter[k].type = "UpDownCounterI64" /\ meter[k].name = "y"
          /\ Len(meter[k].points) = 1
          /\ meter[k].points[1].value = I64_MAX
    /\ \E k \in 1 .. Len(meter) :
          /\ meter[k].type = "CounterU64" /\ meter[k].name = "x"
          /\ Len(meter[k].points) = 1
          /\ meter[k].points[1].value = 3
          /\ Len(meter[k].points[1].attributes) = 1
          /\ meter[k].points[1].attributes[1].key = "k"

\* The metrics that on_event takes up for the event offered as the i-th.
Visited(i) ==
    IF offered[i].enabled /\ offered[i].meta.is_event
    THEN metric_event_record(NewMetricVisitor, offered[i].fields).visited_metrics
    ELSE <<>>

\* Those for the instrument of key, as places (event, metric).
Routed(key) ==
    {<<i, k>> \in (1 .. Len(offered)) \X (1 .. MaxFields) :
        k <= Len(Visited(i)) /\ MetricKey(Visited(i)[k]) = key}

RECURSIVE RoutedTotal(_, _)
RoutedTotal(key, places) ==
    IF places = {} THEN 0
    ELSE LET place == CHOOSE p \in places : TRUE
         IN Visited(place[1])[place[2]].instrument.value
               + RoutedTotal(key, places \ {place})

RECURSIVE Total(_)
Total(points) ==
    IF points = <<>> THEN 0 ELSE Head(points).value + Total(Tail(points))

\* The metrics a thread has still to send.
Pending(t) == Len(mpc[t].visited_metrics)

RECURSIVE PendingOf(_)
PendingOf(ts) ==
    IF ts = {} THEN 0
    ELSE LET t == CHOOSE u \in ts : TRUE IN Pending(t) + PendingOf(ts \ {t})

RECURSIVE Applied(_)
Applied(k) == IF k = 0 THEN 0 ELSE Len(meter[k].points) + Applied(k - 1)

\* The keys of the metrics routed so far.
RoutedKeys ==
    {MetricKey(Visited(i)[k]) : <<i, k>> \in
        {p \in (1 .. Len(offered)) \X (1 .. MaxFields) : p[2] <= Len(Visited(p[1]))}}

\* C26: every metric taken up is either still to be sent or has reached an
\* instrument once; when no thread is in on_event, the instrument of each
\* key has received as many values as were routed to the key, and their
\* sum.
C26_AppliedOnce ==
    /\ Applied(Len(meter)) + PendingOf(threads)
          = Cardinality({p \in (1 .. Len(offered)) \X (1 .. MaxFields) :
                            p[2] <= Len(Visited(p[1]))})
    /\ (\A t \in threads : mpc[t].phase = "idle")
       => \A key \in RoutedKeys :
             /\ key \in DOMAIN instruments
             /\ Len(meter[instruments[key]].points) = Cardinality(Routed(key))
             /\ Total(meter[instruments[key]].points)
                   = RoutedTotal(key, Routed(key))

\* C26: two threads have found no counter x under the read lock, and under
\* the write lock one has built it and both have added to it, 5 and 3: its
\* sum is 8.
C26_Witness ==
    /\ \A t \in threads : mpc[t].phase = "idle"
    /\ Len(offered) = 2 /\ offered[1].thread # offered[2].thread
    /\ Len(meter) = 1
    /\ meter[1].type = "CounterU64" /\ meter[1].name = "x"
    /\ Len(meter[1].points) = 2
    /\ \A p \in 1 .. 2 : meter[1].points[p].lock = "write"
    /\ {meter[1].points[1].value, meter[1].points[2].value} = {5, 3}
    /\ Total(meter[1].points) = 8

\* C27: the meter has built at most one instrument of each kind under each
\* name.
C27_OnePerKindAndName ==
    \A i \in 1 .. Len(meter), j \in 1 .. Len(meter) :
        (KindOf(meter[i].type) = KindOf(meter[j].type)
            /\ meter[i].name = meter[j].name) => i = j

\* C27: the meter has built at most one instrument for each map (instrument
\* kind and numeric type) under each name, the one the map holds; an entry
\* of a map never changes and no instrument is dropped.
C27_OnePerMapAndName ==
    /\ [](\A i \in 1 .. Len(meter) :
            /\ <<meter[i].type, meter[i].name>> \in DOMAIN instruments
            /\ instruments[<<meter[i].type, meter[i].name>>] = i)
    /\ [][/\ \A key \in DOMAIN instruments :
               key \in DOMAIN instruments' /\ instruments'[key] = instruments[key]
          /\ Len(meter') >= Len(meter)
          /\ \A i \in 1 .. Len(meter) :
               meter'[i].type = meter[i].type /\ meter'[i].name = meter[i].name]_vars

\* C27: a thread that found no instrument under the read lock is about to
\* take the write lock, and the map holds by now the instrument that the
\* other thread built under the write lock.
C27_Witness ==
    \E t \in threads :
        /\ mpc[t].phase = "write"
        /\ MetricKey(Head(mpc[t].visited_metrics)) \in DOMAIN instruments
        /\ Len(meter) = 1
        /\ Len(meter[1].points) = 1
        /\ meter[1].points[1].lock = "write"

\* The names of the fields of an event that start with no prefix, in their
\* order.
RECURSIVE PlainNames(_)
PlainNames(fields) ==
    IF fields = <<>> THEN <<>>
    ELSE IF Prefixed(Head(fields).name) THEN PlainNames(Tail(fields))
    ELSE <<Head(fields).name>> \o PlainNames(Tail(fields))

\* The keys of a list of attributes, in their order.
Keys(attributes) == [i \in 1 .. Len(attributes) |-> attributes[i].key]

\* C28: the attributes on_event keeps for the metrics of an event are the
\* fields of the event that start with no prefix, all of them and in their
\* order, and every measurement an instrument receives carries the
\* attributes the thread keeps.
C28_AllPlainFieldsSent ==
    [][/\ \A t \in threads, n \in 1 .. Len(MetricInputs) :
            (metrics_dispatch(t, TRUE, MetricInputs[n]) /\ mpc'[t].phase # "idle")
            => Keys(mpc'[t].attributes) = PlainNames(MetricInputs[n])
       /\ \A t \in threads, k \in 1 .. Len(meter') :
            (mpc[t].phase # "idle" /\ mpc'[t] # mpc[t]
                /\ (k > Len(meter) \/ meter'[k] # meter[k]))
            => meter'[k].points[Len(meter'[k].points)].attributes
                  = mpc[t].attributes]_vars

\* C28: the gauge g of the event <<big = u64::MAX, gauge.g = 5>> has
\* received its value without attributes.
C28_Witness ==
    /\ Len(offered) = 1
    /\ PlainNames(offered[1].fields) = <<"big">>
    /\ \A t \in threads : mpc[t].phase = "idle"
    /\ Len(meter) = 1
    /\ meter[1].name = "g"
    /\ Len(meter[1].points) = 1
    /\ meter[1].points[1].attributes = <<>>

\* The callsite is of an event with a field under a prefix.
MetricsCallsite(meta) ==
    meta.is_event /\ \E i \in 1 .. Len(meta.names) : Prefixed(meta.names[i])

\* C29: on_event of the metrics layer gets what is offered exactly if it is
\* an event with a field under a prefix; the filter enables exactly these,
\* for the callsite as for the call; as long as no such event is offered no
\* instrument is built and no thread is in on_event.
C29_OnlyMetricEventsPass ==
    /\ \A i \in 1 .. Len(offered) :
          /\ offered[i].received = MetricsCallsite(offered[i].meta)
          /\ offered[i].enabled = MetricsCallsite(offered[i].meta)
          /\ offered[i].interest =
                IF MetricsCallsite(offered[i].meta) THEN "always" ELSE "never"
          /\ offered[i].interest \in {"always", "never"}
    /\ (\A i \in 1 .. Len(offered) : ~MetricsCallsite(offered[i].meta))
       => /\ meter = <<>>
          /\ DOMAIN instruments = {}
          /\ stderr = 0
          /\ \A t \in threads : mpc[t].phase = "idle"

\* C29: a span with the field gauge.x was offered and nothing came of it,
\* then an event with the field gauge.x, which built the gauge x.
C29_Witness ==
    /\ Len(offered) = 2
    /\ ~offered[1].meta.is_event /\ offered[1].meta.names = <<"gauge.x">>
    /\ ~offered[1].received
    /\ offered[2].meta.is_event /\ offered[2].meta.names = <<"gauge.x">>
    /\ offered[2].received
    /\ Len(meter) = 1 /\ meter[1].name = "x" /\ Len(meter[1].points) = 1

\* The kind a text names whatever its case, over the spellings of
\* SpanFieldInputs; None for any other text.
SpanKindOf(text) ==
    CASE text \in {"server", "SERVER", "Server"} -> "server"
      [] text \in {"client", "Client"} -> "client"
      [] text \in {"producer", "Producer"} -> "producer"
      [] text \in {"consumer", "Consumer"} -> "consumer"
      [] text \in {"internal", "Internal"} -> "internal"
      [] OTHER -> None

\* The status a status code names whatever its case: Error has an empty
\* description.
SpanStatusOf(text) ==
    CASE text \in {"ok", "Ok", "OK"} -> "Ok"
      [] text \in {"error", "Error", "ERROR"} -> "Error:"
      [] OTHER -> "Unset"

\* The field is a text: a &str, or a Debug value by what it writes.
IsText(field) == field.value.type \in {"str", "debug"}

\* The visit of one text field with a special name changes that part of the
\* span's updates and nothing else, the attributes included; a kind the
\* field does not know changes nothing.
SpecialFieldVisited ==
    visit' # visit =>
        LET field == visit.fields[visit.next]
            text == field.value.s
            before == visit.v.span_builder_updates
            after == visit'.v.span_builder_updates
        IN IsText(field) =>
              /\ field.name = "otel.name" => after = [before EXCEPT !.name = text]
              /\ field.name = "otel.kind" =>
                    after = IF SpanKindOf(text) # None
                            THEN [before EXCEPT !.span_kind = SpanKindOf(text)]
                            ELSE before
              /\ field.name = "otel.status_code" =>
                    after = [before EXCEPT !.status = SpanStatusOf(text)]
              /\ field.name = "otel.status_message" =>
                    after = [before EXCEPT !.status = "Error:" \o text]

\* The builder on_new_span makes has the name, the kind and the status of
\* the span's special text fields (the status where one field gives it), and
\* none of these fields among its attributes.
SpecialFieldsOnNewSpan ==
    \A id \in SpanIds :
        ~extensions[id].present /\ extensions'[id].present =>
            LET builder == extensions'[id].builder
                fields == visit.fields
                Statuses == {i \in 1 .. Len(fields) :
                                /\ IsText(fields[i])
                                /\ fields[i].name \in {"otel.status_code",
                                                       "otel.status_message"}}
            IN \A i \in 1 .. Len(fields) :
                  IsText(fields[i]) =>
                     /\ fields[i].name = "otel.name" =>
                           builder.name = fields[i].value.s
                     /\ fields[i].name = "otel.kind" =>
                           builder.span_kind = SpanKindOf(fields[i].value.s)
                     /\ fields[i].name = "otel.status_code" /\ Statuses = {i} =>
                           builder.status = SpanStatusOf(fields[i].value.s)
                     /\ fields[i].name = "otel.status_message" /\ Statuses = {i} =>
                           builder.status = "Error:" \o fields[i].value.s
                     /\ fields[i].name \in {"otel.name", "otel.kind",
                                            "otel.status_code",
                                            "otel.status_message"} =>
                           \A k \in 1 .. Len(builder.attributes) :
                               builder.attributes[k] # fields[i].name

\* on_record on a span whose builder is pending: the name, the kind and the
\* status its fields give replace the builder's, and what they do not give
\* stays as it was.
SpecialFieldsOnRecord ==
    ops' # ops /\ ops'[Len(ops')].op = "on_record" =>
        LET id == ops'[Len(ops')].id
            updates == ops'[Len(ops')].updates
            before == extensions[id].builder
            after == extensions'[id].builder
        IN extensions[id].present /\ before.present =>
              /\ after.name = IF updates.name # None THEN updates.name
                              ELSE before.name
              /\ after.span_kind = IF updates.span_kind # None
                                   THEN updates.span_kind ELSE before.span_kind
              /\ after.status = IF updates.status # None THEN updates.status
                                ELSE before.status

\* C30: a span field with a special name and a text value updates the span's
\* descriptor and is no attribute: otel.name replaces the name; otel.kind
\* sets the kind for server, client, producer, consumer or internal in any
\* case and leaves it unchanged for any other value; otel.status_code gives
\* Ok for ok, Error with an empty description for error, in any case, and
\* Unset for any other value; otel.status_message gives Error with the text.
C30_SpecialFieldsUpdateDescriptor ==
    [][/\ SpecialFieldVisited
       /\ SpecialFieldsOnNewSpan
       /\ SpecialFieldsOnRecord]_vars

\* A span made with a name, the kind Server and the status code error has
\* them as its builder's name, kind and status and has no attributes, its
\* fields visited one by one as well; a record of a kind the field does not
\* know has left the kind in place.
C30_Witness ==
    /\ visit.fields = SpanFieldInputs[15]
    /\ visit.next = 4
    /\ visit.v.span_builder_updates =
          [name |-> "GET /", span_kind |-> "server", status |-> "Error:",
           attributes |-> <<>>]
    /\ extensions[1].present
    /\ extensions[1].builder.name = "GET /"
    /\ extensions[1].builder.span_kind = "server"
    /\ extensions[1].builder.status = "Error:"
    /\ extensions[1].builder.attributes = <<>>
    /\ Len(ops) = 1
    /\ ops[1].op = "on_record" /\ ops[1].id = 1
    /\ ops[1].updates = NoUpdates

\* The span the specification makes has got the field
\* otel.status_description with a text at its creation.
StatusDescribed ==
    /\ extensions[1].present
    /\ \E i \in 1 .. Len(visit.fields) :
          visit.fields[i].name = "otel.status_description" /\ IsText(visit.fields[i])

DescriptionGiven ==
    visit.fields[CHOOSE i \in 1 .. Len(visit.fields) :
                    visit.fields[i].name = "otel.status_description"].value.s

\* C31: a span that has got otel.status_description = T has the status
\* Error with the description T, whether or not otel.status_code is set on
\* it as well, in the same field pass or in another one, before or after.
C31_StatusDescriptionGivesError ==
    StatusDescribed /\ extensions[1].builder.present =>
        extensions[1].builder.status = "Error:" \o DescriptionGiven

\* The span made with otel.status_description = "boom" alone: its status is
\* Unset and the field is one of its attributes.
C31_Witness ==
    /\ visit.fields = SpanFieldInputs[20]
    /\ extensions[1].present
    /\ extensions[1].builder.status = "Unset"
    /\ extensions[1].builder.attributes = <<"otel.status_description">>
    /\ ops = <<>>

\* The attribute keys one field gives: none for a special text field; for an
\* error the exception keys if they are on, the name and the chain; the name
\* otherwise.
GenericOf(field) ==
    IF IsText(field) /\ field.name \in {"otel.name", "otel.kind", "otel.status_code",
                                        "otel.status_message"}
    THEN <<>>
    ELSE IF field.value.type = "error"
    THEN (IF sem_conv_config.error_fields_to_exceptions
          THEN <<"exception.message", "exception.stacktrace">> ELSE <<>>)
         \o <<field.name, field.name \o ".chain">>
    ELSE <<field.name>>

RECURSIVE GenericFields(_)
GenericFields(fields) ==
    IF fields = <<>> THEN <<>>
    ELSE GenericOf(fields[1]) \o GenericFields(SubSeq(fields, 2, Len(fields)))

\* The attributes of the on_record calls for the span among the first n
\* calls, in call order.
RECURSIVE Recorded(_, _)
Recorded(id, n) ==
    IF n = 0 THEN <<>>
    ELSE Recorded(id, n - 1)
         \o (IF ops[n].id = id THEN ops[n].updates.attributes ELSE <<>>)

EntriesOf(key) ==
    {k \in 1 .. Len(extensions[1].builder.attributes) :
        extensions[1].builder.attributes[k] = key}

\* C33: however many error values are recorded on a span, its attributes
\* hold a single exception.message and a single exception.stacktrace.
C33_SingleExceptionEntry ==
    extensions[1].present /\ extensions[1].builder.present =>
        /\ Cardinality(EntriesOf("exception.message")) <= 1
        /\ Cardinality(EntriesOf("exception.stacktrace")) <= 1

\* A span made with an error field and one on_record of an error field: the
\* builder holds exception.message at the second and at the seventh place.
C33_Witness ==
    /\ visit.fields = SpanFieldInputs[16]
    /\ Len(ops) = 1
    /\ ops[1].updates = field_updates(SpanFieldInputs[16])
    /\ extensions[1].builder.present
    /\ EntriesOf("exception.message") = {2, 7}
    /\ EntriesOf("exception.stacktrace") = {3, 8}

\* The error field the visitor gets in this step, if it gets one.
ErrorVisited ==
    /\ visit' # visit
    /\ visit.next <= Len(visit.fields)
    /\ visit.fields[visit.next].value.type = "error"

\* C34: recording an error value on an event puts exception.message and
\* exception.stacktrace on the event under error_fields_to_exceptions, puts
\* them on the owning span under error_records_to_exceptions, each whatever
\* the other setting is, and always puts the field and its chain on the
\* event; it changes nothing else.
C34_TwoSwitches ==
    [][ErrorVisited =>
          LET field == visit.fields[visit.next]
              before == visit.v
              after == visit'.v
              exception == IF sem_conv_config.error_fields_to_exceptions
                           THEN <<KeyValue("exception.message", field.value.s),
                                  KeyValue("exception.stacktrace", "chain")>>
                           ELSE <<>>
              escalated == IF sem_conv_config.error_records_to_exceptions
                           THEN <<"exception.message", "exception.stacktrace">>
                           ELSE <<>>
          IN after =
                [before EXCEPT
                    !.event_builder.attributes =
                        @ \o exception
                          \o <<KeyValue(field.name, field.value.s),
                               KeyValue(field.name \o ".chain", "chain")>>,
                    !.span_builder_updates.attributes = @ \o escalated]]_vars

\* C34 as stated: each of the three effects has a switch, so that with the
\* switches off an error value leaves nothing on the event.
C34_ThreeSwitches ==
    [][ErrorVisited /\ ~sem_conv_config.error_fields_to_exceptions
                    /\ ~sem_conv_config.error_records_to_exceptions
          => visit'.v.event_builder.attributes = visit.v.event_builder.attributes]_vars

\* An event whose first field is an error, visited with the exception
\* fields off for the event and on for the span: the event has the field and
\* its chain after level and target, the span gets the exception fields.
C34_Witness ==
    /\ ~sem_conv_config.error_fields_to_exceptions
    /\ sem_conv_config.error_records_to_exceptions
    /\ Len(visit.fields) = 1 /\ visit.next = 2
    /\ visit.fields[1].name = "k" /\ visit.fields[1].value.type = "error"
    /\ visit.v.event_builder.attributes =
          <<KeyValue("level", "level"), KeyValue("target", "target"),
            KeyValue("k", "boom"), KeyValue("k.chain", "chain")>>
    /\ visit.v.span_builder_updates.attributes =
          <<"exception.message", "exception.stacktrace">>

\* The calls of one operation on a span, by their places in the log.
CallsOf(op, id) == {k \in 1 .. Len(ops) : ops[k].op = op /\ ops[k].id = id}

\* The last status set_status has given the span.
LastStatusSet(id) ==
    ops[CHOOSE k \in CallsOf("set_status", id) :
            \A j \in CallsOf("set_status", id) : j <= k].status

\* The places of the key among the attributes of an OpenTelemetry span, and
\* of the events add_event has made for a tracing span among its events.
AttributesAt(sid, key) ==
    {k \in 1 .. Len(tracer[sid].attributes) : tracer[sid].attributes[k] = key}

AddedAt(sid, id) ==
    {k \in 1 .. Len(tracer[sid].events) :
        tracer[sid].events[k].kind = "add_event" /\ tracer[sid].events[k].parent = id}

\* C35: a tracked span that is closed has been exported with the last
\* status set_status gave it, one attribute for each set_attribute and one
\* event for each add_event, whether the calls came before or after its
\* start; the calls on a span the layer does not track leave the tracer as
\* it is.
C35_SpanExtTakesEffect ==
    \A id \in SpanIds :
        /\ registry[id] = "closed" =>
              \E sid \in Owned(id) :
                 /\ tracer[sid].ended = 1
                 /\ CallsOf("set_status", id) # {} =>
                       tracer[sid].status = LastStatusSet(id)
                 /\ Cardinality(AttributesAt(sid, "a")) =
                       Cardinality(CallsOf("set_attribute", id))
                 /\ Cardinality(AddedAt(sid, id)) =
                       Cardinality(CallsOf("add_event", id))
        /\ registry[id] \in {"filtered", "filtered_closed"} => Owned(id) = {}

\* A span started by the creation of its child, then given a remote parent,
\* then the status Ok, then closed: it is exported with the status Unset.
C35_Witness ==
    /\ registry[1] = "closed"
    /\ Len(ops) = 2
    /\ ops[1].op = "set_parent" /\ ops[1].id = 1 /\ ops[1].cx.sid = RemoteSid
    /\ ops[2].op = "set_status" /\ ops[2].id = 1 /\ ops[2].status = "Ok"
    /\ \E sid \in Owned(1) : tracer[sid].status = "Unset"

\* The OpenTelemetry spans a step changes, the started ones alone.
Touched == {sid \in DOMAIN tracer : tracer'[sid] # tracer[sid]}

\* C37: a call of on_record, set_attribute, set_status or add_event on a
\* span changes no OpenTelemetry span but the one started for that span,
\* and on_close of a tracked span ends the span started for it and changes
\* no other, also after set_parent on a span that is started.
C37_OwnSpanOnly ==
    [][/\ ops' # ops =>
             \A sid \in Touched : tracer[sid].owner = ops'[Len(ops')].id
       /\ \A id \in SpanIds :
             registry[id] = "open" /\ registry'[id] = "closed" =>
                /\ \A sid \in Touched : tracer[sid].owner = id
                /\ \E sid \in DOMAIN tracer' :
                      tracer'[sid].owner = id /\ tracer'[sid].ended = 1]_vars

\* Two spans started by on_enter; the second is given the context of the
\* first as its parent and closed: the span of the first is ended, the first
\* being open, and the span of the second is not.
C37_Witness ==
    /\ registry[1] = "open" /\ registry[2] = "closed"
    /\ Len(ops) = 1
    /\ ops[1].op = "set_parent" /\ ops[1].id = 2
    /\ \E sid \in Owned(1) : ops[1].cx.sid = sid /\ tracer[sid].ended = 1
    /\ \E sid \in Owned(2) : tracer[sid].ended = 0

\* C36: whenever context() is called on a tracked span, the context it
\* returns carries the OpenTelemetry span started for that span, the one it
\* is exported as.
C36_ContextIsOwnSpan ==
    \A id \in SpanIds : has_data(id) => context(id).sid \in Owned(id)

\* A child whose builder is pending: context() returns the context of its
\* parent, which carries the span started for the parent.
C36_Witness ==
    /\ has_data(1) /\ has_data(2)
    /\ extensions[2].builder.present
    /\ Owned(2) = {}
    /\ context(2).sid \in Owned(1)
    /\ ops = <<>>

\* The valid span contexts add_link has got for the span, by their places
\* in the log.
LinksAdded(id) == {k \in CallsOf("add_link", id) : ops[k].cx.sid # 0}

\* C38: a tracked span that is closed has been exported with one link for
\* each valid span context add_link got for it, whether it was started at
\* the time or not, and with no other link.
C38_LinksExported ==
    \A id \in SpanIds :
        registry[id] = "closed" =>
            \E sid \in Owned(id) :
                /\ Len(tracer[sid].links) = Cardinality(LinksAdded(id))
                /\ \A k \in 1 .. Len(tracer[sid].links) :
                       tracer[sid].links[k] = RemoteSid

\* A span started by the creation of its child gets a link to a remote span
\* context and is closed: it is exported without a link.
C38_Witness ==
    /\ registry[1] = "closed"
    /\ Owned(2) # {}
    /\ ops = <<Call("add_link", 1, [sid |-> RemoteSid, sampled |-> TRUE], NoUpdates, None)>>
    /\ \E sid \in Owned(1) : tracer[sid].links = <<>> /\ tracer[sid].ended = 1

\* The step is an on_exit of the span by some thread.
Exits(id) ==
    \E t \in threads :
        /\ Len(stack'[t]) < Len(stack[t])
        /\ stack[t][Len(stack[t])] = id

\* C39: each on_exit of a tracked span records the time as its end time,
\* over that of an earlier on_exit; no other step changes the recorded end
\* time; on_close ends the span at the recorded end time if there is one and
\* at the time of on_close otherwise; the end time of an ended span stays.
C39_EndTimeIsLastExit ==
    [][/\ \A id \in SpanIds :
             extensions[id].present =>
                IF Exits(id) THEN extensions'[id].end_time = <<now>>
                ELSE IF registry'[id] = "closed"
                THEN \E sid \in DOMAIN tracer' :
                        /\ tracer'[sid].owner = id
                        /\ tracer'[sid].ended = 1
                        /\ tracer'[sid].end_time =
                              IF extensions[id].end_time # <<>>
                              THEN extensions[id].end_time ELSE <<now>>
                ELSE extensions'[id].end_time = extensions[id].end_time
       /\ \A sid \in DOMAIN tracer :
             tracer[sid].ended > 0 => tracer'[sid].end_time = tracer[sid].end_time]_vars

\* A span last exited at 2, busy for 1 and idle for 1 by then, and closed
\* at 3: it is exported with the end time 2.
C39_Witness ==
    /\ tracked_inactivity
    /\ now = 3
    /\ registry[1] = "closed"
    /\ \E sid \in Owned(1) :
          /\ tracer[sid].ended = 1
          /\ tracer[sid].end_time = <<2>>
          /\ tracer[sid].busy_ns = <<1>>
          /\ tracer[sid].idle_ns = <<1>>

\* An offered event has supplied the value under monotonic_counter. and the
\* name.
Supplied(name, value) ==
    \E k \in 1 .. Len(offered) :
        \E i \in 1 .. Len(offered[k].fields) :
            /\ offered[k].fields[i].name = "monotonic_counter." \o name
            /\ offered[k].fields[i].value.n = value

\* C40: every increment a monotonic counter has received is a value that an
\* event has supplied under monotonic_counter. and its name; a negative i64
\* gives no increment of another value.
C40_CounterAddsSuppliedValues ==
    \A i \in 1 .. Len(meter) :
        KindOf(meter[i].type) = "counter" =>
            \A p \in 1 .. Len(meter[i].points) :
                Supplied(meter[i].name, meter[i].points[p].value)

\* The one event monotonic_counter.x = -1_i64: the u64 counter x is built
\* and has received the increment u64::MAX.
C40_Witness ==
    /\ Len(offered) = 1
    /\ offered[1].fields = <<Field("monotonic_counter.x", Value("i64", FALSE, 0 - 1, ""))>>
    /\ Len(meter) = 1
    /\ meter[1].type = "CounterU64" /\ meter[1].name = "x"
    /\ Len(meter[1].points) = 1
    /\ meter[1].points[1].value = U64_MAX

====
